---- MODULE Spec2Model ----
(***************************************************************************)
(* The dynamic modification pipeline of the game engine: LLMService (the   *)
(* request orchestrator) and GeminiClient (the generation client).         *)
(*                                                                         *)
(* Strings are sequences of lexical tokens: an error message is the        *)
(* sequence of its words, a piece of generated code the sequence of its    *)
(* lexemes, a user text the sequence of its words and blanks.  Substring   *)
(* tests (String.includes) and the regular expressions of the validators   *)
(* are computed on these sequences.                                        *)
(***************************************************************************)
EXTENDS Integers, Sequences, FiniteSets, TLC

\* Number of requests submitted in one run.
MaxReq == 2

Reqs == 1..MaxReq

None == "none"

\* The empty message: no error.
NoError == <<>>

-----------------------------------------------------------------------------
(* String helpers                                                          *)

\* String.prototype.toLowerCase, token by token.
LowerTok(t) ==
  CASE t = "API" -> "api"
    [] t = "Invalid" -> "invalid"
    [] t = "Network" -> "network"
    [] t = "Rate" -> "rate"
    [] t = "Request" -> "request"
    [] t = "Timeout" -> "timeout"
    [] t = "Safety" -> "safety"
    [] t = "Generated" -> "generated"
    [] t = "Code" -> "code"
    [] t = "Timer" -> "timer"
    [] t = "Create" -> "create"
    [] t = "Function" -> "function"
    [] OTHER -> t

toLowerCase(s) == [i \in 1..Len(s) |-> LowerTok(s[i])]

\* String.prototype.includes: p occurs in s as a contiguous run of tokens.
includes(s, p) ==
  \E i \in 1..(Len(s) - Len(p) + 1) : SubSeq(s, i, i + Len(p) - 1) = p

\* Regular expressions: a sequence of literal tokens and the two markers
\* below; a pattern with alternatives ( a|b ) is the set of its alternatives.
WsStar == "\\s*"
WsPlus == "\\s+"

IsSpace(t) == t \in {" ", "\n"}

RECURSIVE MatchHere(_, _, _, _)
MatchHere(s, i, re, j) ==
  IF j > Len(re) THEN TRUE
  ELSE IF re[j] = WsStar
    THEN \/ MatchHere(s, i, re, j + 1)
         \/ i <= Len(s) /\ IsSpace(s[i]) /\ MatchHere(s, i + 1, re, j)
  ELSE IF re[j] = WsPlus
    THEN /\ i <= Len(s)
         /\ IsSpace(s[i])
         /\ (MatchHere(s, i + 1, re, j) \/ MatchHere(s, i + 1, re, j + 1))
  ELSE i <= Len(s) /\ s[i] = re[j] /\ MatchHere(s, i + 1, re, j + 1)

\* RegExp.prototype.test for one alternative, and for a pattern.
TestAlt(re, s) == \E i \in 1..(Len(s) + 1) : MatchHere(s, i, re, 1)

RegexTest(pattern, s) == \E re \in pattern : TestAlt(re, s)

\* Number of lines of code.split('\n').
RECURSIVE CountTok(_, _)
CountTok(s, t) ==
  IF s = <<>> THEN 0
  ELSE (IF Head(s) = t THEN 1 ELSE 0) + CountTok(Tail(s), t)

SplitLinesLength(code) == CountTok(code, "\n") + 1

\* code.split('\n').filter(line => line.trim().length > 0).length
RECURSIVE NonBlankLines(_, _)
NonBlankLines(s, seen) ==
  IF s = <<>> THEN (IF seen THEN 1 ELSE 0)
  ELSE IF Head(s) = "\n"
    THEN (IF seen THEN 1 ELSE 0) + NonBlankLines(Tail(s), FALSE)
  ELSE NonBlankLines(Tail(s), seen \/ ~IsSpace(Head(s)))

\* n copies of a token sequence.
RECURSIVE Repeat(_, _)
Repeat(s, n) == IF n = 0 THEN <<>> ELSE s \o Repeat(s, n - 1)

-----------------------------------------------------------------------------
(* GeminiClient: pure functions                                            *)

\* Error messages the oracle call can fail with.
MsgRequestTimeout == <<"Request", "timeout", "after", "ms">>
MsgNetwork == <<"Network", "error">>
MsgRateLimit == <<"Rate", "limit", "exceeded">>
MsgApiKey == <<"Invalid", "API", "key">>
MsgMalformed == <<"malformed", "request", "body">>

\* GeminiClient.shouldNotRetry
shouldNotRetryKeyOnly(message) ==
  includes(toLowerCase(message), <<"api", "key">>)

nonRetryableErrors ==
  { <<"API", "key">>, <<"authentication">>, <<"invalid", "request">>, <<"malformed">> }

shouldNotRetry(message) ==
  \E pattern \in nonRetryableErrors :
    includes(toLowerCase(message), toLowerCase(pattern))

\* GeminiClient.handleError: the error type the client records.
ClientErrorType(message) ==
  IF includes(message, <<"API", "key">>) THEN "authentication"
  ELSE IF includes(message, <<"quota">>) \/ includes(message, <<"limit">>) THEN "rate_limit"
  ELSE IF includes(message, <<"timeout">>) THEN "timeout"
  ELSE IF includes(message, <<"network">>) THEN "network"
  ELSE "unknown"

\* Defaults of the GeminiClient constructor.
retryAttempts == 3
retryDelay == 1000

\* The backoff delay after failed attempt number a.
RECURSIVE Pow2(_)
Pow2(n) == IF n = 0 THEN 1 ELSE 2 * Pow2(n - 1)

BackoffDelayConstant(a) == retryDelay

BackoffDelay(a) == retryDelay * Pow2(a - 1)

\* GeminiClient.extractCodeBlocks: the text between a fence and the next one,
\* without the language tag and the line break after it, trimmed.
\* The token of a code fence (three backquotes).
Fence == "FENCE"

RECURSIVE IndexFrom(_, _, _)
IndexFrom(s, t, i) ==
  IF i > Len(s) THEN 0 ELSE IF s[i] = t THEN i ELSE IndexFrom(s, t, i + 1)

RECURSIVE TrimStart(_)
TrimStart(s) == IF s # <<>> /\ IsSpace(Head(s)) THEN TrimStart(Tail(s)) ELSE s

RECURSIVE TrimEnd(_)
TrimEnd(s) ==
  IF s # <<>> /\ IsSpace(s[Len(s)]) THEN TrimEnd(SubSeq(s, 1, Len(s) - 1)) ELSE s

trim(s) == TrimEnd(TrimStart(s))

BlockBody(s) ==
  LET a == IF s # <<>> /\ Head(s) \in {"javascript", "js"} THEN Tail(s) ELSE s
      b == IF a # <<>> /\ Head(a) = "\n" THEN Tail(a) ELSE a
  IN  trim(b)

RECURSIVE BlocksFrom(_, _)
BlocksFrom(text, i) ==
  LET a == IndexFrom(text, Fence, i)
      b == IF a = 0 THEN 0 ELSE IndexFrom(text, Fence, a + 1)
  IN  IF b = 0 THEN <<>>
      ELSE <<BlockBody(SubSeq(text, a + 1, b - 1))>> \o BlocksFrom(text, b + 1)

extractCodeBlocks(text) == BlocksFrom(text, 1)

\* GeminiClient.validateGeneratedCode: the message of the error it throws,
\* or NoError when the code passes.
clientDangerousPatterns ==
  << <<"eval", WsStar, "(">>,
     <<"Function", WsStar, "(">>,
     <<"set", "Timeout", WsStar, "(">>,
     <<"setInterval", WsStar, "(">>,
     <<"XMLHttpRequest">>,
     <<"fetch", WsStar, "(">>,
     <<"import", WsStar, "(">>,
     <<"require", WsStar, "(">>,
     <<"process", ".">>,
     <<"global", ".">>,
     <<"window", ".">>,
     <<"document", ".">> >>

infiniteLoopPatterns ==
  << <<"while", WsStar, "(", WsStar, "true", WsStar, ")">>,
     <<"for", WsStar, "(", WsStar, ";", WsStar, ";", WsStar, ")">> >>

MaxCodeLines == 50

validateWithoutLoopRules(code) ==
  IF \E k \in 1..Len(clientDangerousPatterns) : TestAlt(clientDangerousPatterns[k], code)
    THEN <<"Generated", "code", "contains", "dangerous", "pattern">>
  ELSE IF SplitLinesLength(code) > MaxCodeLines
    THEN <<"Generated", "code", "exceeds", "50", "lines", "limit">>
  ELSE NoError

FirstMatch(patterns, code) ==
  LET hits == { k \in 1..Len(patterns) : TestAlt(patterns[k], code) }
  IN  IF hits = {} THEN 0 ELSE CHOOSE k \in hits : \A m \in hits : k <= m

validateGeneratedCode(code) ==
  LET d == FirstMatch(clientDangerousPatterns, code)
      l == FirstMatch(infiniteLoopPatterns, code)
  IN  IF d # 0
        THEN <<"Generated", "code", "contains", "dangerous", "pattern", ":">>
               \o clientDangerousPatterns[d]
      ELSE IF SplitLinesLength(code) > MaxCodeLines
        THEN <<"Generated", "code", "exceeds", "50", "lines", "limit">>
      ELSE IF l # 0
        THEN <<"Generated", "code", "contains", "potential", "infinite", "loop", ":">>
               \o infiniteLoopPatterns[l]
      ELSE NoError

\* GeminiClient.processResponse: the token estimate of a response text.
estimatedTokens(text) == (Len(text) + 3) \div 4

\* GeminiClient.parseCodeResponse: the first code block, validated.
parseCodeResponseLastBlock(text) ==
  LET codeBlocks == extractCodeBlocks(text)
      n == Len(codeBlocks)
  IN  IF n = 0
        THEN [error |-> <<"No", "code", "blocks", "found", "in", "response">>, code |-> <<>>]
      ELSE [error |-> validateGeneratedCode(codeBlocks[n]), code |-> codeBlocks[n]]

parseCodeResponse(text) ==
  LET codeBlocks == extractCodeBlocks(text)
  IN  IF Len(codeBlocks) = 0
        THEN [error |-> <<"No", "code", "blocks", "found", "in", "response">>, code |-> <<>>]
      ELSE [error |-> validateGeneratedCode(codeBlocks[1]), code |-> codeBlocks[1]]

-----------------------------------------------------------------------------
(* LLMService: pure functions                                              *)

\* LLMService.performSafetyChecks: the list of violations.
dangerousPatterns ==
  << [pattern |-> {<<"eval", WsStar, "(">>}, description |-> <<"Code", "evaluation">>],
     [pattern |-> {<<"Function", WsStar, "(">>},
      description |-> <<"Dynamic", "function", "creation">>],
     [pattern |-> {<<"set", "Timeout">>, <<"setInterval">>},
      description |-> <<"Timer", "functions">>],
     [pattern |-> {<<"XMLHttpRequest">>, <<"fetch">>},
      description |-> <<"Network", "requests">>],
     [pattern |-> {<<"import", WsStar, "(">>, <<"require", WsStar, "(">>},
      description |-> <<"Dynamic", "imports">>],
     [pattern |-> {<<"process", ".">>, <<"global", ".">>, <<"window", ".">>},
      description |-> <<"Global", "object", "access">>],
     [pattern |-> {<<"while", WsStar, "(", WsStar, "true", WsStar, ")">>,
                   <<"for", WsStar, "(", WsStar, ";", WsStar, ";", WsStar, ")">>},
      description |-> <<"Infinite", "loops">>] >>

suspiciousRequestsWithoutHack ==
  << {<<"exploit">>, <<"cheat">>, <<"bypass">>, <<"break">>},
     {<<"delete", WsPlus, "all">>, <<"destroy", WsPlus, "everything">>, <<"crash">>},
     {<<"infinite">>, <<"unlimited">>, <<"maximum">>} >>

suspiciousRequests ==
  << {<<"hack">>, <<"exploit">>, <<"cheat">>, <<"bypass">>, <<"break">>},
     {<<"delete", WsPlus, "all">>, <<"destroy", WsPlus, "everything">>, <<"crash">>},
     {<<"infinite">>, <<"unlimited">>, <<"maximum">>} >>

\* RegExp.prototype.source of a pattern: its alternatives joined by "|".
RECURSIVE Source(_)
Source(pattern) ==
  IF pattern = {} THEN <<>>
  ELSE LET re == CHOOSE x \in pattern : TRUE
       IN  re \o (IF pattern = {re} THEN <<>> ELSE <<"|">> \o Source(pattern \ {re}))

RECURSIVE CodeViolations(_, _)
CodeViolations(code, k) ==
  IF k > Len(dangerousPatterns) THEN <<>>
  ELSE (IF RegexTest(dangerousPatterns[k].pattern, code)
          THEN <<dangerousPatterns[k].description \o <<":">>
                   \o Source(dangerousPatterns[k].pattern)>>
          ELSE <<>>)
       \o CodeViolations(code, k + 1)

RECURSIVE RequestViolations(_, _)
RequestViolations(words, k) ==
  IF k > Len(suspiciousRequests) THEN <<>>
  ELSE (IF RegexTest(suspiciousRequests[k], toLowerCase(words))
          THEN <<<<"Suspicious", "request", "pattern", ":">>
                   \o Source(suspiciousRequests[k])>>
          ELSE <<>>)
       \o RequestViolations(words, k + 1)

SafetyViolations(code, userRequest) ==
  CodeViolations(code, 1)
    \o (IF NonBlankLines(code, FALSE) > MaxCodeLines
          THEN << <<"Code", "too", "complex", ":", "lines", "(", "max", "50", ")">> >>
          ELSE <<>>)
    \o RequestViolations(userRequest.words, 1)

\* Array.prototype.join with a comma and a blank.
RECURSIVE Join(_)
Join(vs) ==
  IF vs = <<>> THEN <<>>
  ELSE IF Len(vs) = 1 THEN vs[1]
  ELSE vs[1] \o <<",", " ">> \o Join(Tail(vs))

SafetyErrorMessage(violations) ==
  <<"Safety", "violation", "s", "detected", ":">> \o Join(violations)

\* LLMService.categorizeError
categorizeError(msg) ==
  LET message == toLowerCase(msg)
  IN  IF includes(message, <<"timeout">>) THEN "timeout"
      ELSE IF includes(message, <<"safety">>) \/ includes(message, <<"violation">>)
        THEN "safety"
      ELSE IF includes(message, <<"syntax">>) THEN "syntax"
      ELSE IF includes(message, <<"reference">>) THEN "reference"
      ELSE IF includes(message, <<"api", "key">>) \/ includes(message, <<"authentication">>)
        THEN "authentication"
      ELSE IF includes(message, <<"rate", "limit">>) \/ includes(message, <<"quota">>)
        THEN "rate_limit"
      ELSE IF includes(message, <<"network">>) THEN "network"
      ELSE "unknown"

\* The input validation of processModificationRequest: the error thrown, or NoError.
MaxRequestLength == 1000

ValidationErrorOffByOne(userRequest) ==
  IF ~userRequest.isString \/ userRequest.length = 0
    THEN <<"User", "request", "must", "be", "a", "non-empty", "string">>
  ELSE IF userRequest.length >= MaxRequestLength
    THEN <<"User", "request", "too", "long">>
  ELSE NoError

ValidationError(userRequest) ==
  IF ~userRequest.isString \/ userRequest.length = 0
    THEN <<"User", "request", "must", "be", "a", "non-empty", "string">>
  ELSE IF userRequest.length > MaxRequestLength
    THEN <<"User", "request", "too", "long">>
  ELSE NoError


\* The evaluation of a piece of code by executeWithTimeout: the code runs
\* synchronously inside the Promise executor.  game.createEntity(...) adds an
\* entity to the simulation, a throw statement ends the evaluation with the
\* thrown value (an Error object after "throw new", any other value
\* otherwise), a loop whose condition is constantly true never returns.
EndlessLoops ==
  { <<"while", WsStar, "(", WsStar, "1", WsStar, ")">>,
    <<"while", WsStar, "(", WsStar, "true", WsStar, ")">>,
    <<"for", WsStar, "(", WsStar, ";", WsStar, ";", WsStar, ")">> }

RECURSIVE RunFrom(_, _, _)
RunFrom(code, i, n) ==
  IF i > Len(code) THEN [outcome |-> "returned", entities |-> n]
  ELSE IF MatchHere(code, i, <<"throw", WsPlus, "new">>, 1)
    THEN [outcome |-> "threw", entities |-> n]
  ELSE IF code[i] = "throw" THEN [outcome |-> "threwValue", entities |-> n]
  ELSE IF \E re \in EndlessLoops : MatchHere(code, i, re, 1)
    THEN [outcome |-> "hang", entities |-> n]
  ELSE IF MatchHere(code, i, <<"game", ".", "createEntity", WsStar, "(">>, 1)
    THEN RunFrom(code, i + 1, n + 1)
  ELSE RunFrom(code, i + 1, n)

RunCodeOnFreshEngine(code, n) == RunFrom(code, 1, 0)

RunCode(code, n) == RunFrom(code, 1, n)

\* The scope of the evaluated code.  executeWithTimeout builds the function
\* with new Function(...Object.keys(context), code): an identifier of the code
\* is a parameter when it is a key of the execution context, and is looked up
\* in the global scope of the host otherwise.
ContextKeys ==
  {"game", "console", "Math", "TransformComponent", "RenderComponent",
   "MovementComponent", "PhysicsComponent", "PlayerControllerComponent"}

HostGlobals == {"globalThis", "process", "fetch", "setInterval", "XMLHttpRequest"}

Resolve(name) ==
  IF name \in ContextKeys THEN "context"
  ELSE IF name \in HostGlobals THEN "host"
  ELSE "none"

\* The host values the evaluation of a piece of code gets hold of.
RECURSIVE ReachedFrom(_, _)
ReachedFrom(code, i) ==
  IF i > Len(code) THEN {}
  ELSE IF code[i] = "throw" THEN {}
  ELSE IF \E re \in EndlessLoops : MatchHere(code, i, re, 1) THEN {}
  ELSE (IF Resolve(code[i]) = "host" THEN {code[i]} ELSE {}) \cup ReachedFrom(code, i + 1)

HostValuesReached(code) == ReachedFrom(code, 1)

\* How executeGeneratedCode settles.  Its catch block reads error.message and
\* calls categorizeExecutionError, which calls error.message.toLowerCase():
\* for a thrown value that has no message this raises a TypeError inside the
\* catch block, and the call rejects with it.
MsgTypeError == <<"Cannot", "read", "properties", "of", "undefined">>

ExecutorRejectsAlways(outcome) == MsgTypeError

ExecutorRejects(outcome) ==
  IF outcome = "threwValue" THEN MsgTypeError ELSE NoError

-----------------------------------------------------------------------------
(* Inputs                                                                  *)

\* User requests: the words of the text and its length in characters.
TextCreate ==
  [isString |-> TRUE, length |-> 19,
   words |-> <<"Create", " ", "a", " ", "red", " ", "player">>]
TextHack ==
  [isString |-> TRUE, length |-> 13, words |-> <<"hack", " ", "the", " ", "game">>]
TextEmpty == [isString |-> TRUE, length |-> 0, words |-> <<>>]
TextNumber == [isString |-> FALSE, length |-> 0, words |-> <<>>]
TextMax == [isString |-> TRUE, length |-> MaxRequestLength, words |-> <<"a">>]
TextTooLong == [isString |-> TRUE, length |-> MaxRequestLength + 1, words |-> <<"a">>]

UserTexts == {TextCreate, TextHack, TextEmpty, TextNumber, TextMax, TextTooLong}

\* Pieces of generated code.
CodeCreate == <<"game", ".", "createEntity", "(", ")", ";">>
CodeThrow ==
  <<"game", ".", "createEntity", "(", ")", ";", " ",
    "throw", " ", "new", " ", "Error", "(", ")", ";">>
CodeThrowValue == <<"throw", " ", "1", ";">>
CodeWhileTrue == <<"while", " ", "(", "true", ")", " ", "{", "}">>
CodeEval == <<"eval", "(", "x", ")", ";">>
CodeSpin == <<"while", " ", "(", "1", ")", " ", "{", "}">>
CodeTimerName == <<"const", " ", "t", " ", "=", " ", "set", "Timeout", ";">>
CodeGlobalThis == <<"globalThis", "[", "'process'", "]", ".", "exit", "(", ")", ";">>

Codes ==
  {CodeCreate, CodeThrow, CodeThrowValue, CodeWhileTrue, CodeEval, CodeSpin,
   CodeTimerName}

\* Oracle responses: a line of prose and the code in a fenced block, or prose only.
Respond(code) ==
  <<"Here", " ", "is", " ", "the", " ", "code", ":", "\n", Fence, "javascript", "\n">>
    \o code \o <<"\n", Fence>>
RespNoCode == <<"I", " ", "cannot", " ", "help", ".">>

OracleTexts == {Respond(c) : c \in Codes} \cup {RespNoCode}

\* Oracle responses with several fenced blocks, with a block that has no
\* language tag, and with a block the output ends in the middle of.
RECURSIVE FencedBlocks(_)
FencedBlocks(blocks) ==
  IF blocks = <<>> THEN <<>>
  ELSE <<Fence, "javascript", "\n">> \o Head(blocks) \o <<"\n", Fence, "\n">>
         \o FencedBlocks(Tail(blocks))

RespondBlocks(blocks) ==
  <<"Here", " ", "is", " ", "the", " ", "code", ":", "\n">> \o FencedBlocks(blocks)

RespUntagged == <<Fence, "\n">> \o CodeCreate \o <<"\n", Fence>>
RespUnclosed == <<"Here", ":", "\n", Fence, "javascript", "\n">> \o CodeCreate

BlockTexts ==
  { RespondBlocks(<<CodeCreate>>),
    RespondBlocks(<<CodeCreate, CodeEval>>),
    RespondBlocks(<<CodeEval, CodeCreate>>),
    RespondBlocks(<<CodeCreate, CodeCreate>>),
    RespondBlocks(<<CodeThrow, CodeCreate>>),
    RespondBlocks(<<CodeGlobalThis>>),
    RespUntagged, RespUnclosed, RespNoCode }

OracleErrors == {MsgRequestTimeout, MsgNetwork, MsgRateLimit, MsgApiKey, MsgMalformed}

\* Errors thrown by the collaborators of the pipeline.
MsgCallback == <<"callback", "failed">>
MsgContext == <<"context", "failed">>

-----------------------------------------------------------------------------
(* State                                                                   *)

VARIABLES
  enableSafetyChecks,   \* LLMService.enableSafetyChecks (constructor option)
  stats,                \* LLMService.stats
  executionHistory,     \* LLMService.executionHistory
  pendingRequests,      \* keys of LLMService.pendingRequests
  requestCount,         \* GeminiClient.requestCount
  clientTokensUsed,     \* GeminiClient.totalTokensUsed
  entityCount,          \* number of entities of the simulation
  eventLoop,            \* "free", or "stuck" inside code that never returns
  req,                  \* per request: the frame of processModificationRequest
  oracleCalls,          \* per request: calls of generativeModel.generateContent
  delays,               \* per request: the backoff delays waited, in order
  attempts,             \* per request: how each oracle call ended, in order
  generated,            \* per request: the code block the oracle generated
  execOrder,            \* the requests whose code was evaluated, in order
  outcome,              \* per request: what processModificationRequest settled with
  cancelled,            \* ids for which cancelRequest returned true
  requestHistory,       \* GeminiClient.requestHistory
  trace,                \* per request: the callbacks and stages invoked, in order
  lateCalls,            \* per request: the oracle calls of timed-out attempts
  executorLimits,       \* CodeExecutor.timeout and CodeExecutor.maxMemory
  limitCalls,           \* per call: the frame of executeWithLimits
  microtasks,           \* the continuations that are ready to run, in order
  heap,                 \* the Entity objects ever constructed
  manager,              \* the collections of the EntityManager
  engine,               \* the GameEngine and the server's use of it
  observed              \* what the latest query of the service returned

\* The state of the service and of its generation client.
serviceVars ==
  <<enableSafetyChecks, stats, executionHistory, pendingRequests, requestCount,
    clientTokensUsed, entityCount, eventLoop, req, oracleCalls, delays, attempts,
    generated, execOrder, outcome, cancelled, requestHistory, trace, observed>>

\* The state of the CodeExecutor.
executorVars == <<executorLimits, limitCalls, microtasks>>

\* The state of the simulation.
worldVars == <<heap, manager, engine>>

\* The state the service and its pipeline never touch.
restVars == <<lateCalls, executorVars, worldVars>>

vars == <<serviceVars, restVars>>

\* Defaults of the CodeExecutor constructor, and a call of executeWithLimits
\* that is not running.
DefaultTimeout == 5000
DefaultMaxMemory == 52428800

DefaultLimits == [timeout |-> DefaultTimeout, maxMemory |-> DefaultMaxMemory]

IdleCall == [pc |-> "idle", originalTimeout |-> 0, originalMaxMemory |-> 0]

\* The ids, component types and tags of the simulation, and an EntityManager
\* as its constructor leaves it.  An entity of the manager is a reference to
\* an object of the heap, 0 standing for no entity.
EntityIds == {"player", "enemy-0-0"}
ComponentTypes == {"TransformComponent", "RenderComponent"}
Tags == {"player", "enemy"}

EmptyManager ==
  [entities |-> [id \in EntityIds |-> 0],
   entityTags |-> [tag \in Tags |-> {}],
   componentIndex |-> [type \in ComponentTypes |-> {}],
   entitiesToDestroy |-> {}]

InitStats ==
  [totalRequests |-> 0, successfulExecutions |-> 0, failedExecutions |-> 0,
   totalTokensUsed |-> 0, safetyViolations |-> 0]

IdleFrame ==
  [pc |-> "idle", userRequest |-> TextEmpty, attempt |-> 0, error |-> NoError,
   response |-> <<>>, code |-> <<>>, tokens |-> 0, execSuccess |-> FALSE]

\* A settled call keeps nothing of its frame.
Settled == [IdleFrame EXCEPT !.pc = "settled"]

\* The caller holds no answer of a query: none was made, or a request was
\* submitted or cancelled since.
NoCall == [op |-> None, value |-> <<>>]

\* How an answered oracle call is logged.
Ok == <<"ok">>

Init ==
  /\ enableSafetyChecks \in BOOLEAN
  /\ stats = InitStats
  /\ executionHistory = <<>>
  /\ pendingRequests = {}
  /\ requestCount = 0
  /\ clientTokensUsed = 0
  /\ entityCount = 0
  /\ eventLoop = "free"
  /\ req = [r \in Reqs |-> IdleFrame]
  /\ oracleCalls = [r \in Reqs |-> 0]
  /\ delays = [r \in Reqs |-> <<>>]
  /\ attempts = [r \in Reqs |-> <<>>]
  /\ generated = [r \in Reqs |-> <<>>]
  /\ execOrder = <<>>
  /\ outcome = [r \in Reqs |-> [status |-> None, error |-> NoError, execSuccess |-> FALSE]]
  /\ cancelled = {}
  /\ requestHistory = <<>>
  /\ trace = [r \in Reqs |-> <<>>]
  /\ lateCalls = [r \in Reqs |-> [outstanding |-> {}, delivered |-> {}]]
  /\ executorLimits = DefaultLimits
  /\ limitCalls = [c \in Reqs |-> IdleCall]
  /\ microtasks = <<>>
  /\ heap = <<>>
  /\ manager = EmptyManager
  /\ engine = [running |-> FALSE, phase |-> "new", asked |-> None, returned |-> 0]
  /\ observed = NoCall

\* LLMService.addToHistory
HistoryCapacity == 50

addToHistoryUnbounded(history, result) == Append(history, result)

addToHistory(history, result) ==
  LET pushed == Append(history, result)
  IN  IF Len(pushed) > HistoryCapacity THEN Tail(pushed) ELSE pushed

\* The entries of handleError and of the success path.
ErrorResult(r, message) ==
  [id |-> r, success |-> FALSE, errorType |-> categorizeError(message),
   execSuccess |-> FALSE]

SuccessResult(r, execSuccess) ==
  [id |-> r, success |-> TRUE, errorType |-> None, execSuccess |-> execSuccess]


-----------------------------------------------------------------------------
(* Operations                                                              *)

\* GeminiClient.addToHistory, and the responses generateContent records.
RequestHistoryCapacity == 100

clientAddToHistoryKeepsOldest(history, response) ==
  IF Len(history) >= RequestHistoryCapacity THEN history ELSE Append(history, response)

clientAddToHistory(history, response) ==
  LET pushed == Append(history, response)
  IN  IF Len(pushed) > RequestHistoryCapacity THEN Tail(pushed) ELSE pushed

ClientResponse == [success |-> TRUE, errorType |-> None]

ClientErrorResponse(message) ==
  [success |-> FALSE, errorType |-> ClientErrorType(message)]

\* The synchronous part of handleError: count the failure, record it.
HandleError(r, frame, message, st, history) ==
  /\ stats' = [st EXCEPT !.failedExecutions = @ + 1]
  /\ executionHistory' = addToHistory(history, ErrorResult(r, message))
  /\ req' = [req EXCEPT ![r] = [frame EXCEPT !.pc = "handled", !.error = message]]

\* The finally block of processModificationRequest: the request is forgotten.
deletePendingNever(pending, r) == pending

deletePending(pending, r) == pending \ {r}

\* The catch block of makeRequestWithRetry after a failed attempt: give up,
\* or wait and try again.
AfterFailedAttemptOffByOne(attempt, message) ==
  IF shouldNotRetry(message) THEN "throw"
  ELSE IF attempt < retryAttempts - 1 THEN "delay"
  ELSE "throw"

AfterFailedAttempt(attempt, message) ==
  IF shouldNotRetry(message) THEN "throw"
  ELSE IF attempt < retryAttempts THEN "delay"
  ELSE "throw"

\* processModificationRequest up to its first suspension: validate the input,
\* count and track the request, notify, build the context, call the oracle.
Submit(r, text, startThrows, contextThrows) ==
  /\ eventLoop = "free"
  /\ req[r].pc = "idle"
  /\ \A q \in Reqs : q < r => req[q].pc # "idle"
  /\ IF ValidationError(text) # NoError
       THEN /\ req' = [req EXCEPT ![r] = [IdleFrame EXCEPT !.pc = "settled",
                                                          !.userRequest = text]]
            /\ outcome' = [outcome EXCEPT ![r] =
                 [status |-> "rejected", error |-> ValidationError(text),
                  execSuccess |-> FALSE]]
            /\ UNCHANGED <<stats, executionHistory, pendingRequests, requestCount,
                           oracleCalls, trace>>
       ELSE /\ pendingRequests' = pendingRequests \cup {r}
            /\ UNCHANGED outcome
            /\ trace' = [trace EXCEPT ![r] =
                 IF startThrows THEN <<"onModificationStart">>
                 ELSE IF contextThrows THEN <<"onModificationStart", "buildContext">>
                 ELSE <<"onModificationStart", "buildContext", "generateGameCode">>]
            /\ IF startThrows \/ contextThrows
                 THEN /\ HandleError(r, [req[r] EXCEPT !.userRequest = text],
                           IF startThrows THEN MsgCallback ELSE MsgContext,
                           [stats EXCEPT !.totalRequests = @ + 1], executionHistory)
                      /\ UNCHANGED <<requestCount, oracleCalls>>
                 ELSE /\ stats' = [stats EXCEPT !.totalRequests = @ + 1]
                      /\ req' = [req EXCEPT ![r].pc = "oracle", ![r].userRequest = text,
                                            ![r].attempt = 1]
                      /\ requestCount' = requestCount + 1
                      /\ oracleCalls' = [oracleCalls EXCEPT ![r] = @ + 1]
                      /\ UNCHANGED executionHistory
  /\ observed' = NoCall
  /\ UNCHANGED <<requestHistory, enableSafetyChecks, clientTokensUsed, entityCount,
                 eventLoop, delays, attempts, generated, execOrder, cancelled>>
  /\ UNCHANGED restVars

\* The oracle answers: processResponse and parseCodeResponse settle
\* generateGameCode with the code or with an error.
OracleResponds(r, text) ==
  /\ eventLoop = "free"
  /\ req[r].pc = "oracle"
  /\ LET parsed == parseCodeResponse(text)
     IN  /\ req' = [req EXCEPT ![r].pc = "generated", ![r].error = parsed.error,
                               ![r].response = text,
                               ![r].code = IF parsed.error = NoError THEN parsed.code
                                           ELSE <<>>,
                               ![r].tokens = estimatedTokens(text)]
         /\ generated' = [generated EXCEPT ![r] = parsed.code]
  /\ clientTokensUsed' = clientTokensUsed + estimatedTokens(text)
  /\ attempts' = [attempts EXCEPT ![r] = Append(@, Ok)]
  /\ requestHistory' = clientAddToHistory(requestHistory, ClientResponse)
  /\ UNCHANGED observed
  /\ UNCHANGED trace
  /\ UNCHANGED <<enableSafetyChecks, stats, executionHistory, pendingRequests,
                 requestCount, entityCount, eventLoop, oracleCalls, delays, execOrder,
                 outcome, cancelled>>
  /\ UNCHANGED restVars

\* The catch block of makeRequestWithRetry: the attempt failed with message.
AttemptFails(r, message) ==
  /\ eventLoop = "free"
  /\ req[r].pc = "oracle"
  /\ IF AfterFailedAttempt(req[r].attempt, message) = "delay"
       THEN /\ req' = [req EXCEPT ![r].pc = "delay", ![r].error = message]
            /\ delays' = [delays EXCEPT ![r] = Append(@, BackoffDelay(req[r].attempt))]
            /\ UNCHANGED requestHistory
       ELSE /\ req' = [req EXCEPT ![r].pc = "generated", ![r].error = message]
            /\ requestHistory' =
                 clientAddToHistory(requestHistory, ClientErrorResponse(message))
            /\ UNCHANGED delays
  /\ attempts' = [attempts EXCEPT ![r] = Append(@, message)]
  /\ UNCHANGED observed
  /\ UNCHANGED trace
  /\ UNCHANGED <<enableSafetyChecks, stats, executionHistory, pendingRequests,
                 requestCount, clientTokensUsed, entityCount, eventLoop, oracleCalls,
                 generated, execOrder, outcome, cancelled>>

\* The oracle call is rejected.
OracleFails(r, message) ==
  /\ AttemptFails(r, message)
  /\ UNCHANGED restVars

\* The attempt's timeout wins the race: the attempt fails, and the oracle call
\* it made is still outstanding.
AttemptTimesOut(r) ==
  /\ AttemptFails(r, MsgRequestTimeout)
  /\ lateCalls' = [lateCalls EXCEPT ![r].outstanding = @ \cup {req[r].attempt}]
  /\ UNCHANGED <<executorVars, worldVars>>

\* The oracle answers a call whose attempt has timed out.  The answer
\* settles a promise of a race that is settled already: nothing awaits it.
LateResponseWins(r, a, text) ==
  /\ eventLoop = "free"
  /\ a \in lateCalls[r].outstanding
  /\ lateCalls' = [lateCalls EXCEPT ![r].outstanding = @ \ {a},
                                    ![r].delivered = @ \cup {a}]
  /\ IF req[r].pc \in {"oracle", "delay"}
       THEN /\ req' = [req EXCEPT ![r].pc = "generated",
                                  ![r].error = parseCodeResponse(text).error,
                                  ![r].response = text,
                                  ![r].code = parseCodeResponse(text).code]
            /\ generated' = [generated EXCEPT ![r] = parseCodeResponse(text).code]
       ELSE UNCHANGED <<req, generated>>
  /\ UNCHANGED <<enableSafetyChecks, stats, executionHistory, pendingRequests,
                 requestCount, clientTokensUsed, entityCount, eventLoop, oracleCalls,
                 delays, attempts, execOrder, outcome, cancelled, requestHistory,
                 trace, observed>>
  /\ UNCHANGED <<executorVars, worldVars>>

LateResponse(r, a, text) ==
  /\ eventLoop = "free"
  /\ a \in lateCalls[r].outstanding
  /\ lateCalls' = [lateCalls EXCEPT ![r].outstanding = @ \ {a},
                                    ![r].delivered = @ \cup {a}]
  /\ UNCHANGED <<enableSafetyChecks, stats, executionHistory, pendingRequests,
                 requestCount, clientTokensUsed, entityCount, eventLoop, req,
                 oracleCalls, delays, attempts, generated, execOrder, outcome,
                 cancelled, requestHistory, trace, observed>>
  /\ UNCHANGED <<executorVars, worldVars>>

\* The backoff delay has passed: the next attempt calls the oracle again.
DelayElapsed(r) ==
  /\ eventLoop = "free"
  /\ req[r].pc = "delay"
  /\ req' = [req EXCEPT ![r].pc = "oracle", ![r].attempt = @ + 1, ![r].error = NoError]
  /\ oracleCalls' = [oracleCalls EXCEPT ![r] = @ + 1]
  /\ UNCHANGED observed
  /\ UNCHANGED trace
  /\ UNCHANGED <<requestHistory, enableSafetyChecks, stats, executionHistory, pendingRequests,
                 requestCount, clientTokensUsed, entityCount, eventLoop, delays,
                 attempts, generated, execOrder, outcome, cancelled>>
  /\ UNCHANGED restVars

\* executeGeneratedCode up to its suspension: the code is evaluated at once.
\* Code that never returns keeps the thread, and with it every other request.
Execute(r) ==
  LET run == RunCode(req[r].code, entityCount)
  IN  /\ entityCount' = run.entities
      /\ execOrder' = Append(execOrder, r)
      /\ trace' = [trace EXCEPT ![r] = Append(@, "executeGeneratedCode")]
      /\ IF run.outcome = "hang"
           THEN /\ eventLoop' = "stuck"
                /\ req' = [req EXCEPT ![r].pc = "executing"]
           ELSE /\ eventLoop' = eventLoop
                /\ req' = [req EXCEPT ![r].pc = "executed",
                                      ![r].execSuccess = (run.outcome = "returned"),
                                      ![r].error = ExecutorRejects(run.outcome)]

\* generateGameCode has settled: on an error the catch block runs handleError;
\* otherwise performSafetyChecks runs (when enabled), else the code is executed.
AfterGenerate(r, safetyCallbackThrows) ==
  /\ eventLoop = "free"
  /\ req[r].pc = "generated"
  /\ IF req[r].error # NoError
       THEN /\ HandleError(r, req[r], req[r].error, stats, executionHistory)
            /\ UNCHANGED <<entityCount, eventLoop, execOrder, trace>>
     ELSE IF enableSafetyChecks
       THEN LET violations == SafetyViolations(req[r].code, req[r].userRequest)
            IN  /\ trace' = [trace EXCEPT ![r] =
                     @ \o (IF Len(violations) > 0
                             THEN <<"performSafetyChecks", "onSafetyViolation">>
                             ELSE <<"performSafetyChecks">>)]
                /\ IF Len(violations) > 0
                     THEN /\ stats' = [stats EXCEPT !.safetyViolations = @ + 1]
                          /\ req' = [req EXCEPT ![r].pc = "checked", ![r].error =
                               IF safetyCallbackThrows THEN MsgCallback
                               ELSE SafetyErrorMessage(violations)]
                     ELSE /\ req' = [req EXCEPT ![r].pc = "checked"]
                          /\ UNCHANGED stats
                /\ UNCHANGED <<executionHistory, entityCount, eventLoop, execOrder>>
     ELSE /\ Execute(r)
          /\ UNCHANGED <<stats, executionHistory>>
  /\ UNCHANGED observed
  /\ UNCHANGED <<requestHistory, enableSafetyChecks, pendingRequests, requestCount, clientTokensUsed,
                 oracleCalls, delays, attempts, generated, outcome, cancelled>>
  /\ UNCHANGED restVars

\* performSafetyChecks has settled: execute the code, or handle its error.
AfterSafetyIgnoringTheError(r) ==
  /\ eventLoop = "free"
  /\ req[r].pc = "checked"
  /\ Execute(r)
  /\ UNCHANGED <<stats, executionHistory>>
  /\ UNCHANGED observed
  /\ UNCHANGED <<requestHistory, enableSafetyChecks, pendingRequests, requestCount, clientTokensUsed,
                 oracleCalls, delays, attempts, generated, outcome, cancelled>>
  /\ UNCHANGED restVars

AfterSafety(r) ==
  /\ eventLoop = "free"
  /\ req[r].pc = "checked"
  /\ IF req[r].error # NoError
       THEN /\ HandleError(r, req[r], req[r].error, stats, executionHistory)
            /\ UNCHANGED <<entityCount, eventLoop, execOrder, trace>>
       ELSE /\ Execute(r)
            /\ UNCHANGED <<stats, executionHistory>>
  /\ UNCHANGED observed
  /\ UNCHANGED <<requestHistory, enableSafetyChecks, pendingRequests, requestCount, clientTokensUsed,
                 oracleCalls, delays, attempts, generated, outcome, cancelled>>
  /\ UNCHANGED restVars

\* executeGeneratedCode has settled.  If it rejected, the catch block runs
\* handleError.  Otherwise: build the result, update the statistics, record
\* it, notify, return; the finally block forgets the request.
AfterExecute(r, completeThrows) ==
  /\ eventLoop = "free"
  /\ req[r].pc = "executed"
  /\ LET counted == [stats EXCEPT !.successfulExecutions = @ + 1,
                                  !.totalTokensUsed = @ + req[r].tokens]
         recorded == addToHistory(executionHistory, SuccessResult(r, req[r].execSuccess))
         notified == [trace EXCEPT ![r] = Append(@, "onModificationComplete")]
     IN  IF req[r].error # NoError
           THEN /\ HandleError(r, req[r], req[r].error, stats, executionHistory)
                /\ UNCHANGED <<pendingRequests, outcome, trace>>
         ELSE IF completeThrows
           THEN /\ HandleError(r, req[r], MsgCallback, counted, recorded)
                /\ trace' = notified
                /\ UNCHANGED <<pendingRequests, outcome>>
           ELSE /\ stats' = counted
                /\ trace' = notified
                /\ executionHistory' = recorded
                /\ req' = [req EXCEPT ![r] = Settled]
                /\ pendingRequests' = deletePending(pendingRequests, r)
                /\ outcome' = [outcome EXCEPT ![r] =
                     [status |-> "resolved", error |-> NoError,
                      execSuccess |-> req[r].execSuccess]]
  /\ UNCHANGED observed
  /\ UNCHANGED <<requestHistory, enableSafetyChecks, requestCount, clientTokensUsed, entityCount,
                 eventLoop, oracleCalls, delays, attempts, generated, execOrder,
                 cancelled>>
  /\ UNCHANGED restVars

\* handleError has settled: notify, rethrow; the finally block forgets the request.
AfterHandleError(r, errorCallbackThrows) ==
  /\ eventLoop = "free"
  /\ req[r].pc = "handled"
  /\ req' = [req EXCEPT ![r] = Settled]
  /\ pendingRequests' = deletePending(pendingRequests, r)
  /\ outcome' = [outcome EXCEPT ![r] =
       [status |-> "rejected",
        error |-> IF errorCallbackThrows THEN MsgCallback ELSE req[r].error,
        execSuccess |-> FALSE]]
  /\ trace' = [trace EXCEPT ![r] = Append(@, "onModificationError")]
  /\ UNCHANGED observed
  /\ UNCHANGED <<requestHistory, enableSafetyChecks, stats, executionHistory, requestCount,
                 clientTokensUsed, entityCount, eventLoop, oracleCalls, delays,
                 attempts, generated, execOrder, cancelled>>
  /\ UNCHANGED restVars

\* LLMService.cancelRequest on the id of a pending request.
CancelRequest(r) ==
  /\ eventLoop = "free"
  /\ r \in pendingRequests
  /\ pendingRequests' = pendingRequests \ {r}
  /\ cancelled' = cancelled \cup {r}
  /\ observed' = NoCall
  /\ UNCHANGED trace
  /\ UNCHANGED <<requestHistory, enableSafetyChecks, stats, executionHistory, requestCount,
                 clientTokensUsed, entityCount, eventLoop, req, oracleCalls, delays,
                 attempts, generated, execOrder, outcome>>
  /\ UNCHANGED restVars

\* LLMService.cancelRequest on any id: Map.prototype.delete, whose answer the
\* caller holds.  Id 0 is the id of no request.
Ids == Reqs \cup {0}

CancelAlwaysTrue(requestId) ==
  /\ eventLoop = "free"
  /\ pendingRequests' = pendingRequests \ {requestId}
  /\ cancelled' = cancelled \cup {requestId}
  /\ observed' = [op |-> "cancelRequest",
                  value |-> [requestId |-> requestId, result |-> TRUE]]
  /\ UNCHANGED trace
  /\ UNCHANGED <<requestHistory, enableSafetyChecks, stats, executionHistory, requestCount,
                 clientTokensUsed, entityCount, eventLoop, req, oracleCalls, delays,
                 attempts, generated, execOrder, outcome>>
  /\ UNCHANGED restVars

Cancel(requestId) ==
  /\ eventLoop = "free"
  /\ pendingRequests' = pendingRequests \ {requestId}
  /\ cancelled' = IF requestId \in pendingRequests THEN cancelled \cup {requestId}
                  ELSE cancelled
  /\ observed' = [op |-> "cancelRequest",
                  value |-> [requestId |-> requestId,
                             result |-> requestId \in pendingRequests]]
  /\ UNCHANGED trace
  /\ UNCHANGED <<requestHistory, enableSafetyChecks, stats, executionHistory, requestCount,
                 clientTokensUsed, entityCount, eventLoop, req, oracleCalls, delays,
                 attempts, generated, execOrder, outcome>>
  /\ UNCHANGED restVars

\* A direct call of executeGeneratedCode: the method evaluates the code it is
\* given, and the caller holds what the call settled with.
MaxEntities == 2

ExecuteGeneratedCode(code) ==
  /\ eventLoop = "free"
  /\ entityCount < MaxEntities
  /\ LET run == RunCode(code, entityCount)
     IN  /\ entityCount' = run.entities
         /\ eventLoop' = IF run.outcome = "hang" THEN "stuck" ELSE eventLoop
         /\ observed' =
              [op |-> "executeGeneratedCode",
               value |-> [code |-> code,
                          settled |-> IF run.outcome = "hang" THEN "never"
                                      ELSE IF ExecutorRejects(run.outcome) # NoError
                                        THEN "rejected"
                                      ELSE "resolved",
                          success |-> run.outcome = "returned"]]
  /\ UNCHANGED trace
  /\ UNCHANGED <<requestHistory, enableSafetyChecks, stats, executionHistory,
                 pendingRequests, requestCount, clientTokensUsed, req, oracleCalls,
                 delays, attempts, generated, execOrder, outcome, cancelled>>
  /\ UNCHANGED restVars

\* A direct call of performSafetyChecks.  The method does not look at
\* enableSafetyChecks: only processModificationRequest does, before calling it.
MaxViolations == 2

PerformSafetyChecks(code, text, safetyCallbackThrows) ==
  /\ eventLoop = "free"
  /\ stats.safetyViolations < MaxViolations
  /\ LET violations == SafetyViolations(code, text)
     IN  /\ stats' = IF Len(violations) > 0
                       THEN [stats EXCEPT !.safetyViolations = @ + 1]
                       ELSE stats
         /\ observed' =
              [op |-> "performSafetyChecks",
               value |-> [code |-> code,
                          userRequest |-> text,
                          error |-> IF Len(violations) = 0 THEN NoError
                                    ELSE IF safetyCallbackThrows THEN MsgCallback
                                    ELSE SafetyErrorMessage(violations)]]
  /\ UNCHANGED trace
  /\ UNCHANGED <<requestHistory, enableSafetyChecks, executionHistory, pendingRequests,
                 requestCount, clientTokensUsed, entityCount, eventLoop, req,
                 oracleCalls, delays, attempts, generated, execOrder, outcome,
                 cancelled>>
  /\ UNCHANGED restVars

\* GeminiClient.getStats and LLMService.getStats: a fresh object computed from
\* the counters.  A quotient is kept as the pair of its terms.
Round(a, b) == (2 * a + b) \div (2 * b)

clientGetStats ==
  [requestCount |-> requestCount,
   totalTokensUsed |-> clientTokensUsed,
   averageTokensPerRequest |->
     IF requestCount > 0 THEN Round(clientTokensUsed, requestCount) ELSE 0,
   historySize |-> Len(requestHistory)]

getStats ==
  [stats |-> stats,
   successRate |-> IF stats.totalRequests > 0
                     THEN <<stats.successfulExecutions * 100, stats.totalRequests>>
                     ELSE <<0, 1>>,
   geminiStats |-> clientGetStats,
   historySize |-> Len(executionHistory),
   pendingRequests |-> Cardinality(pendingRequests)]

GetStatsCounting ==
  /\ eventLoop = "free"
  /\ observed' = [op |-> "getStats", value |-> getStats]
  /\ requestCount' = requestCount + 1
  /\ UNCHANGED trace
  /\ UNCHANGED <<requestHistory, enableSafetyChecks, stats, executionHistory,
                 pendingRequests, clientTokensUsed, entityCount, eventLoop, req,
                 oracleCalls, delays, attempts, generated, execOrder, outcome,
                 cancelled>>
  /\ UNCHANGED restVars

GetStats ==
  /\ eventLoop = "free"
  /\ observed' = [op |-> "getStats", value |-> getStats]
  /\ UNCHANGED trace
  /\ UNCHANGED <<requestHistory, enableSafetyChecks, stats, executionHistory,
                 pendingRequests, requestCount, clientTokensUsed, entityCount,
                 eventLoop, req, oracleCalls, delays, attempts, generated, execOrder,
                 outcome, cancelled>>
  /\ UNCHANGED restVars

\* LLMService.getHistory: Array.prototype.slice with a negative start, which
\* is the whole array when the limit is 0.
getHistory(history, limit) ==
  IF limit = 0 \/ limit >= Len(history) THEN history
  ELSE SubSeq(history, Len(history) - limit + 1, Len(history))

GetHistory(limit) ==
  /\ eventLoop = "free"
  /\ observed' = [op |-> "getHistory", value |-> getHistory(executionHistory, limit)]
  /\ UNCHANGED trace
  /\ UNCHANGED <<requestHistory, enableSafetyChecks, stats, executionHistory,
                 pendingRequests, requestCount, clientTokensUsed, entityCount,
                 eventLoop, req, oracleCalls, delays, attempts, generated, execOrder,
                 outcome, cancelled>>
  /\ UNCHANGED restVars

\* LLMService.resetStats, with GeminiClient.resetStats and both clearHistory.
ResetStatsOfServiceOnly ==
  /\ eventLoop = "free"
  /\ stats' = InitStats
  /\ executionHistory' = <<>>
  /\ observed' = [op |-> "resetStats", value |-> <<>>]
  /\ UNCHANGED trace
  /\ UNCHANGED <<requestCount, clientTokensUsed, requestHistory, enableSafetyChecks,
                 pendingRequests, entityCount, eventLoop, req, oracleCalls, delays,
                 attempts, generated, execOrder, outcome, cancelled>>
  /\ UNCHANGED restVars

ResetStats ==
  /\ eventLoop = "free"
  /\ stats' = InitStats
  /\ requestCount' = 0
  /\ clientTokensUsed' = 0
  /\ requestHistory' = <<>>
  /\ executionHistory' = <<>>
  /\ observed' = [op |-> "resetStats", value |-> <<>>]
  /\ UNCHANGED trace
  /\ UNCHANGED <<enableSafetyChecks, pendingRequests, entityCount, eventLoop, req,
                 oracleCalls, delays, attempts, generated, execOrder, outcome,
                 cancelled>>
  /\ UNCHANGED restVars

\* A call of processModificationRequest that settles before any other call of
\* the service is made: a clean request for which the oracle either answers
\* with clean code that creates an entity, or fails for good.
MaxOverflow == 2
MaxFailed == 1

ProcessModificationRequest(oracleFails) ==
  /\ eventLoop = "free"
  /\ pendingRequests = {}
  /\ \A r \in Reqs : req[r].pc = "idle"
  /\ stats.totalRequests < HistoryCapacity + MaxOverflow
  /\ oracleFails => stats.failedExecutions < MaxFailed
  /\ LET id == stats.totalRequests + 1
         text == Respond(CodeCreate)
         counted == [stats EXCEPT !.totalRequests = @ + 1]
     IN  IF oracleFails
           THEN /\ stats' = [counted EXCEPT !.failedExecutions = @ + 1]
                /\ executionHistory' =
                     addToHistory(executionHistory, ErrorResult(id, MsgApiKey))
                /\ requestHistory' =
                     clientAddToHistory(requestHistory, ClientErrorResponse(MsgApiKey))
                /\ observed' = [op |-> "processModificationRequest",
                                value |-> [status |-> "rejected", error |-> MsgApiKey]]
                /\ UNCHANGED <<clientTokensUsed, entityCount>>
           ELSE /\ stats' = [counted EXCEPT !.successfulExecutions = @ + 1,
                                            !.totalTokensUsed = @ + estimatedTokens(text)]
                /\ executionHistory' =
                     addToHistory(executionHistory, SuccessResult(id, TRUE))
                /\ requestHistory' = clientAddToHistory(requestHistory, ClientResponse)
                /\ clientTokensUsed' = clientTokensUsed + estimatedTokens(text)
                /\ entityCount' = RunCode(CodeCreate, entityCount).entities
                /\ observed' = [op |-> "processModificationRequest",
                                value |-> [status |-> "resolved", error |-> NoError]]
  /\ requestCount' = requestCount + 1
  /\ UNCHANGED trace
  /\ UNCHANGED <<enableSafetyChecks, pendingRequests, eventLoop, req, oracleCalls,
                 delays, attempts, generated, execOrder, outcome, cancelled>>
  /\ UNCHANGED restVars

\* GeminiClient.generateContent called by itself, up to its first suspension:
\* validate the prompt, count the request, start the first attempt.
MaxPromptLength == 30000

PromptError(prompt) ==
  IF ~prompt.isString \/ prompt.length = 0
    THEN <<"Prompt", "must", "be", "a", "non-empty", "string">>
  ELSE IF prompt.length > MaxPromptLength
    THEN <<"Prompt", "too", "long">>
  ELSE NoError

PromptMax == [isString |-> TRUE, length |-> MaxPromptLength, words |-> <<"a">>]
PromptTooLong == [isString |-> TRUE, length |-> MaxPromptLength + 1, words |-> <<"a">>]

Prompts == {PromptMax, PromptTooLong, TextEmpty, TextNumber}

GenerateContent(r, prompt) ==
  /\ eventLoop = "free"
  /\ req[r].pc = "idle"
  /\ requestCount < RequestHistoryCapacity + MaxOverflow
  /\ IF PromptError(prompt) # NoError
       THEN /\ observed' = [op |-> "generateContent",
                            value |-> [status |-> "rejected",
                                       error |-> PromptError(prompt)]]
            /\ UNCHANGED <<req, requestCount, oracleCalls, delays, attempts>>
       ELSE /\ req' = [req EXCEPT ![r].pc = "oracle", ![r].userRequest = prompt,
                                  ![r].attempt = 1]
            /\ requestCount' = requestCount + 1
            /\ oracleCalls' = [oracleCalls EXCEPT ![r] = 1]
            /\ delays' = [delays EXCEPT ![r] = <<>>]
            /\ attempts' = [attempts EXCEPT ![r] = <<>>]
            /\ observed' = NoCall
  /\ UNCHANGED <<enableSafetyChecks, stats, executionHistory, pendingRequests,
                 clientTokensUsed, entityCount, eventLoop, generated, execOrder,
                 outcome, cancelled, requestHistory, trace>>
  /\ UNCHANGED restVars

\* generateContent has recorded the call and settles.
GenerateContentSettles(r) ==
  /\ eventLoop = "free"
  /\ req[r].pc = "generated"
  /\ req' = [req EXCEPT ![r] = IdleFrame]
  /\ observed' = [op |-> "generateContent",
                  value |-> IF attempts[r][Len(attempts[r])] = Ok
                              THEN [status |-> "resolved", error |-> NoError]
                              ELSE [status |-> "rejected",
                                    error |-> attempts[r][Len(attempts[r])]]]
  /\ UNCHANGED <<enableSafetyChecks, stats, executionHistory, pendingRequests,
                 requestCount, clientTokensUsed, entityCount, eventLoop, oracleCalls,
                 delays, attempts, generated, execOrder, outcome, cancelled,
                 requestHistory, trace>>
  /\ UNCHANGED restVars

-----------------------------------------------------------------------------
(* CodeExecutor                                                            *)

\* `limits.timeout || this.timeout`: a limit that is not given (0 here) keeps
\* the current value.
OrElse(given, current) == IF given = 0 THEN current ELSE given

\* The restore of the finally block of executeWithLimits.
Restored(call) ==
  [timeout |-> call.originalTimeout, maxMemory |-> call.originalMaxMemory]

\* executeWithLimits up to its suspension: remember the limits, apply the
\* custom ones and call execute, which runs the code in the VM at once and
\* suspends on the await of its result.
ExecuteWithLimits(c, limits) ==
  /\ limitCalls[c].pc = "idle"
  /\ limitCalls' = [limitCalls EXCEPT ![c] =
       [pc |-> "awaiting", originalTimeout |-> executorLimits.timeout,
        originalMaxMemory |-> executorLimits.maxMemory]]
  /\ executorLimits' =
       [timeout |-> OrElse(limits.timeout, executorLimits.timeout),
        maxMemory |-> OrElse(limits.maxMemory, executorLimits.maxMemory)]
  /\ microtasks' = Append(microtasks, c)
  /\ UNCHANGED <<serviceVars, lateCalls, worldVars>>

\* The continuation of the oldest suspended call runs: execute returns its
\* result and the finally block restores the limits the call remembered.
ExecuteWithLimitsSettles ==
  /\ microtasks # <<>>
  /\ LET c == Head(microtasks)
     IN  /\ executorLimits' = Restored(limitCalls[c])
         /\ limitCalls' = [limitCalls EXCEPT ![c] = IdleCall]
  /\ microtasks' = Tail(microtasks)
  /\ UNCHANGED <<serviceVars, lateCalls, worldVars>>

-----------------------------------------------------------------------------
(* Entity, EntityManager, GameEngine                                       *)

\* new Entity(id)
NewEntity(id) ==
  [id |-> id, components |-> {}, tags |-> {}, active |-> TRUE]

\* Entity.destroy
Destroyed(entity) == [entity EXCEPT !.components = {}, !.tags = {}, !.active = FALSE]

\* EntityManager.addEntity: an entity whose id is taken is not added; a new
\* one is registered and indexed by the tags and components it has now.
addEntity(m, h, o) ==
  LET id == h[o].id
  IN  IF m.entities[id] # 0 THEN m
      ELSE [m EXCEPT !.entities[id] = o,
                     !.entityTags = [tag \in Tags |->
                        IF tag \in h[o].tags THEN @[tag] \cup {id} ELSE @[tag]],
                     !.componentIndex = [type \in ComponentTypes |->
                        IF type \in h[o].components THEN @[type] \cup {id}
                        ELSE @[type]]]

\* EntityManager.removeEntity: the entity leaves the indices of the tags and
\* components it has now, is destroyed and leaves the manager.
removeEntity(w, id) ==
  LET o == w.manager.entities[id]
  IN  IF o = 0 THEN w
      ELSE [manager |->
              [w.manager EXCEPT
                 !.entities[id] = 0,
                 !.entityTags = [tag \in Tags |->
                    IF tag \in w.heap[o].tags THEN @[tag] \ {id} ELSE @[tag]],
                 !.componentIndex = [type \in ComponentTypes |->
                    IF type \in w.heap[o].components THEN @[type] \ {id}
                    ELSE @[type]]],
            heap |-> [w.heap EXCEPT ![o] = Destroyed(@)]]

\* EntityManager.processDestroyQueue
RECURSIVE RemoveAll(_, _)
RemoveAll(w, ids) ==
  IF ids = {} THEN w
  ELSE LET id == CHOOSE x \in ids : TRUE
       IN  RemoveAll(removeEntity(w, id), ids \ {id})

processDestroyQueue(w) ==
  LET removed == RemoveAll(w, w.manager.entitiesToDestroy)
  IN  [removed EXCEPT !.manager.entitiesToDestroy = {}]

\* EntityManager.getEntity
getEntity(id) == manager.entities[id]

\* The registered entities among the ids, as the queries return them.
ActiveOf(ids) ==
  { manager.entities[id] : id \in { x \in ids : manager.entities[x] # 0
                                               /\ heap[manager.entities[x]].active } }

\* EntityManager.getActiveEntities
getActiveEntities == ActiveOf(EntityIds)

\* EntityManager.getEntitiesWithComponents
RECURSIVE Candidates(_, _, _)
Candidates(componentTypes, i, candidateIds) ==
  IF i > Len(componentTypes) \/ candidateIds = {} THEN candidateIds
  ELSE Candidates(componentTypes, i + 1,
                  candidateIds \cap manager.componentIndex[componentTypes[i]])

getEntitiesWithComponents(componentTypes) ==
  IF componentTypes = <<>> THEN getActiveEntities
  ELSE ActiveOf(Candidates(componentTypes, 2,
                           manager.componentIndex[componentTypes[1]]))

\* EntityManager.getEntitiesByTag
getEntitiesByTag(tag) == ActiveOf(manager.entityTags[tag])

\* EntityManager.createEntity
MaxObjects == 2

ManagerCreateEntity(id) ==
  /\ Len(heap) < MaxObjects
  /\ heap' = Append(heap, NewEntity(id))
  /\ manager' = addEntity(manager, heap', Len(heap'))
  /\ engine' = [engine EXCEPT !.asked = id, !.returned = Len(heap')]
  /\ UNCHANGED <<serviceVars, lateCalls, executorVars>>

\* EntityManager.addEntity called with an entity that exists
AddEntity(o) ==
  /\ o \in DOMAIN heap
  /\ manager' = addEntity(manager, heap, o)
  /\ engine' = [engine EXCEPT !.asked = None, !.returned = 0]
  /\ UNCHANGED <<heap, serviceVars, lateCalls, executorVars>>

\* Entity.addComponent, Entity.removeComponent, Entity.addTag, Entity.removeTag
AddComponent(o, type) ==
  /\ o \in DOMAIN heap
  /\ heap' = [heap EXCEPT ![o].components = @ \cup {type}]
  /\ engine' = [engine EXCEPT !.asked = None, !.returned = 0]
  /\ UNCHANGED <<manager, serviceVars, lateCalls, executorVars>>

RemoveComponent(o, type) ==
  /\ o \in DOMAIN heap
  /\ heap' = [heap EXCEPT ![o].components = @ \ {type}]
  /\ engine' = [engine EXCEPT !.asked = None, !.returned = 0]
  /\ UNCHANGED <<manager, serviceVars, lateCalls, executorVars>>

AddTag(o, tag) ==
  /\ o \in DOMAIN heap
  /\ heap' = [heap EXCEPT ![o].tags = @ \cup {tag}]
  /\ engine' = [engine EXCEPT !.asked = None, !.returned = 0]
  /\ UNCHANGED <<manager, serviceVars, lateCalls, executorVars>>

RemoveTag(o, tag) ==
  /\ o \in DOMAIN heap
  /\ heap' = [heap EXCEPT ![o].tags = @ \ {tag}]
  /\ engine' = [engine EXCEPT !.asked = None, !.returned = 0]
  /\ UNCHANGED <<manager, serviceVars, lateCalls, executorVars>>

\* EntityManager.removeEntity
RemoveEntity(id) ==
  /\ LET w == removeEntity([manager |-> manager, heap |-> heap], id)
     IN  /\ manager' = w.manager
         /\ heap' = w.heap
  /\ engine' = [engine EXCEPT !.asked = None, !.returned = 0]
  /\ UNCHANGED <<serviceVars, lateCalls, executorVars>>

\* EntityManager.destroyEntity: the id is queued.
DestroyEntity(id) ==
  /\ manager' = [manager EXCEPT !.entitiesToDestroy = @ \cup {id}]
  /\ engine' = [engine EXCEPT !.asked = None, !.returned = 0]
  /\ UNCHANGED <<heap, serviceVars, lateCalls, executorVars>>

\* GameServer.createDemoWorld: each entity of the demo world is created with
\* createEntity, and the entity the call returns is given its components and
\* its tag.
DemoTag(id) == IF id = "player" THEN "player" ELSE "enemy"

DemoEntity(id) ==
  [NewEntity(id) EXCEPT !.components = ComponentTypes, !.tags = {DemoTag(id)}]

DemoIds == <<"player", "enemy-0-0">>

RECURSIVE createDemoWorld(_, _)
createDemoWorld(w, i) ==
  IF i > Len(DemoIds) THEN w
  ELSE LET created == Append(w.heap, NewEntity(DemoIds[i]))
           added == addEntity(w.manager, created, Len(created))
           built == [created EXCEPT ![Len(created)] = DemoEntity(DemoIds[i])]
       IN  createDemoWorld([manager |-> added, heap |-> built], i + 1)

\* GameServer.setupGameEngine: the demo world is created.
SetUp ==
  /\ engine.phase = "new"
  /\ LET w == createDemoWorld([manager |-> manager, heap |-> heap], 1)
     IN  /\ manager' = w.manager
         /\ heap' = w.heap
  /\ engine' = [engine EXCEPT !.phase = "ready", !.asked = None, !.returned = 0]
  /\ UNCHANGED <<serviceVars, lateCalls, executorVars>>

\* GameEngine.start and GameEngine.stop
Start ==
  /\ engine.phase # "new"
  /\ ~engine.running
  /\ engine' = [engine EXCEPT !.running = TRUE]
  /\ UNCHANGED <<heap, manager, serviceVars, lateCalls, executorVars>>

Stop ==
  /\ engine.running
  /\ engine' = [engine EXCEPT !.running = FALSE]
  /\ UNCHANGED <<heap, manager, serviceVars, lateCalls, executorVars>>

\* GameEngine.gameLoop: a frame of the running engine, in which the destroy
\* queue is processed.
GameLoop ==
  /\ engine.running
  /\ LET w == processDestroyQueue([manager |-> manager, heap |-> heap])
     IN  /\ manager' = w.manager
         /\ heap' = w.heap
  /\ engine' = [engine EXCEPT !.phase = IF @ = "rebuilt" THEN "played" ELSE @]
  /\ UNCHANGED <<serviceVars, lateCalls, executorVars>>

\* GameServer.resetGame: stop the engine, queue every entity for destruction
\* and arm the timer of the rebuild.
MaxHeap == 6

ResetGame ==
  /\ engine.phase \in {"ready", "rebuilt", "played"}
  /\ Len(heap) + Len(DemoIds) <= MaxHeap
  /\ manager' = [manager EXCEPT !.entitiesToDestroy =
       @ \cup { id \in EntityIds : manager.entities[id] # 0 }]
  /\ engine' = [engine EXCEPT !.running = FALSE, !.phase = "resetting"]
  /\ UNCHANGED <<heap, serviceVars, lateCalls, executorVars>>

\* The timer of resetGame fires: the demo world is created again.
Rebuild ==
  /\ engine.phase = "resetting"
  /\ LET w == createDemoWorld([manager |-> manager, heap |-> heap], 1)
     IN  /\ manager' = w.manager
         /\ heap' = w.heap
  /\ engine' = [engine EXCEPT !.phase = "rebuilt"]
  /\ UNCHANGED <<serviceVars, lateCalls, executorVars>>

-----------------------------------------------------------------------------
(* GameContextBuilder                                                      *)

\* A context is described by the lengths of its parts in the output of
\* JSON.stringify: the text of the request, the entities (the length of the id
\* and which component data they carry), the examples.  Every length is the
\* least one the part can have, so the serialized context is at least as long
\* as computed here.
MaxContextLength == 8000
MaxEntitiesInContext == 20
ReducedEntities == 10
ReducedExamples == 2

\* Everything that depends neither on the request nor on the entities: the
\* game information, the component types, the API, the constraints, the keys.
FixedLength == 2439

\* An entity without its id and components, and the component data of an
\* entity with a TransformComponent and a RenderComponent.
EntityOverhead == 79
FullComponentsLength == 259
SimplifiedComponentsLength == 204

GeneratedIdLength == 30

Min(a, b) == IF a < b THEN a ELSE b

EntityLength(entity) ==
  EntityOverhead + entity.id
    + (CASE entity.components = "none" -> 0
         [] entity.components = "full" -> FullComponentsLength
         [] entity.components = "simplified" -> SimplifiedComponentsLength)

RECURSIVE SumLengths(_)
SumLengths(lengths) ==
  IF lengths = <<>> THEN 0 ELSE Head(lengths) + SumLengths(Tail(lengths))

\* JSON.stringify(context).length
stringifyLength(context) ==
  FixedLength + context.text
    + SumLengths([i \in DOMAIN context.entities |-> EntityLength(context.entities[i])])
    + SumLengths(context.examples)

\* getEntityContext: the first maxEntitiesInContext active entities, or all.
getEntityContext(entities, includeAll) ==
  SubSeq(entities, 1,
         IF includeAll THEN Len(entities) ELSE Min(Len(entities), MaxEntitiesInContext))

\* getRelevantExamples: one example per intent found among create, modify
\* and physics, each given by its serialized length.
IntentWords ==
  << {"create", "add", "spawn", "make", "generate", "build", "new"},
     {"change", "modify", "update", "edit", "alter", "adjust", "set"},
     {"gravity", "bounce", "collision", "physics", "force", "velocity"} >>

ExampleLengths == <<285, 302, 233>>

RECURSIVE ExamplesFrom(_, _)
ExamplesFrom(words, k) ==
  IF k > Len(IntentWords) THEN <<>>
  ELSE (IF \E w \in IntentWords[k] : includes(toLowerCase(words), <<w>>)
          THEN <<ExampleLengths[k]>> ELSE <<>>)
       \o ExamplesFrom(words, k + 1)

getRelevantExamples(userRequest) == ExamplesFrom(userRequest.words, 1)

simplifyComponents(components) ==
  IF components = "none" THEN "none" ELSE "simplified"

\* optimizeContext: a context within the limit is returned as it is; a larger
\* one is reduced once and returned.
optimizeContext(context) ==
  IF stringifyLength(context) <= MaxContextLength THEN context
  ELSE LET kept == SubSeq(context.entities, 1,
                          Min(Len(context.entities), ReducedEntities))
       IN  [context EXCEPT
              !.entities = [i \in DOMAIN kept |->
                              [kept[i] EXCEPT !.components = simplifyComponents(@)]],
              !.examples = SubSeq(@, 1, Min(Len(@), ReducedExamples))]

buildContext(userRequest, includeAllEntities, entities) ==
  optimizeContext([text |-> userRequest.length,
                   entities |-> getEntityContext(entities, includeAllEntities),
                   examples |-> getRelevantExamples(userRequest)])

\* The entities of the simulation: entityCount entities of one make.
IdLengths == {GeneratedIdLength, 600}

ActiveEntities(idLength, hasComponents) ==
  [i \in 1..entityCount |->
     [id |-> idLength, components |-> IF hasComponents THEN "full" ELSE "none"]]

\* GameEngine.createEntity: one more entity in the simulation.
MaxWorld == 21

CreateEntity ==
  /\ eventLoop = "free"
  /\ entityCount < MaxWorld
  /\ entityCount' = entityCount + 1
  /\ UNCHANGED trace
  /\ UNCHANGED <<requestHistory, enableSafetyChecks, stats, executionHistory,
                 pendingRequests, requestCount, clientTokensUsed, eventLoop, req,
                 oracleCalls, delays, attempts, generated, execOrder, outcome,
                 cancelled, observed>>
  /\ UNCHANGED restVars

\* A call of buildContext; the caller holds the snapshot.
BuildContext(userRequest, includeAllEntities, idLength, hasComponents) ==
  /\ eventLoop = "free"
  /\ LET context == buildContext(userRequest, includeAllEntities,
                                 ActiveEntities(idLength, hasComponents))
     IN  observed' = [op |-> "buildContext",
                      value |-> [entities |-> Len(context.entities),
                                 examples |-> Len(context.examples),
                                 length |-> stringifyLength(context)]]
  /\ UNCHANGED trace
  /\ UNCHANGED <<requestHistory, enableSafetyChecks, stats, executionHistory,
                 pendingRequests, requestCount, clientTokensUsed, entityCount,
                 eventLoop, req, oracleCalls, delays, attempts, generated, execOrder,
                 outcome, cancelled>>
  /\ UNCHANGED restVars

\* Concurrent requests; the oracle answers, or fails for good.
Texts == {TextMax, TextHack, TextEmpty, TextNumber, TextTooLong}
Errors == {MsgApiKey}

Next ==
  \/ \E r \in Reqs, text \in Texts, startThrows \in BOOLEAN, contextThrows \in BOOLEAN :
       Submit(r, text, startThrows, contextThrows)
  \/ \E r \in Reqs, text \in OracleTexts : OracleResponds(r, text)
  \/ \E r \in Reqs, message \in Errors : OracleFails(r, message)
  \/ \E r \in Reqs, throws \in BOOLEAN : AfterGenerate(r, throws)
  \/ \E r \in Reqs : AfterSafety(r)
  \/ \E r \in Reqs, throws \in BOOLEAN : AfterExecute(r, throws)
  \/ \E r \in Reqs, throws \in BOOLEAN : AfterHandleError(r, throws)
  \/ \E r \in Reqs : CancelRequest(r)

Spec == Init /\ [][Next]_vars

\* One request, with every input and every way the oracle can fail.
NextOne ==
  \/ \E text \in UserTexts, startThrows \in BOOLEAN, contextThrows \in BOOLEAN :
       Submit(1, text, startThrows, contextThrows)
  \/ \E text \in OracleTexts : OracleResponds(1, text)
  \/ \E message \in OracleErrors : OracleFails(1, message)
  \/ DelayElapsed(1)
  \/ \E throws \in BOOLEAN : AfterGenerate(1, throws)
  \/ AfterSafety(1)
  \/ \E throws \in BOOLEAN : AfterExecute(1, throws)
  \/ \E throws \in BOOLEAN : AfterHandleError(1, throws)
  \/ CancelRequest(1)
  \/ ResetStats

SpecOne == Init /\ [][NextOne]_vars

\* The stages of the pipeline called on their own, as the public methods they
\* are.
NextStages ==
  \/ \E code \in Codes : ExecuteGeneratedCode(code)
  \/ \E code \in Codes, text \in {TextCreate, TextHack}, throws \in BOOLEAN :
       PerformSafetyChecks(code, text, throws)

SpecStages == Init /\ [][NextStages]_vars

\* Requests made one after the other, and the queries of the service.
Limits == {0, 1, 10, 50}

NextApi ==
  \/ \E oracleFails \in BOOLEAN : ProcessModificationRequest(oracleFails)
  \/ GetStats
  \/ \E limit \in Limits : GetHistory(limit)

SpecApi == Init /\ [][NextApi]_vars

\* One request, and getStats called at any moment of its progress.
NextQuery ==
  \/ \E text \in {TextMax, TextTooLong} : Submit(1, text, FALSE, FALSE)
  \/ \E code \in {CodeCreate, CodeThrow, CodeThrowValue, CodeEval} :
       OracleResponds(1, Respond(code))
  \/ OracleFails(1, MsgApiKey)
  \/ AfterGenerate(1, FALSE)
  \/ AfterSafety(1)
  \/ \E throws \in BOOLEAN : AfterExecute(1, throws)
  \/ AfterHandleError(1, FALSE)
  \/ GetStats

SpecQuery == Init /\ [][NextQuery]_vars

\* One request, for which the oracle answers with any number of code blocks.
NextParse ==
  \/ \E contextThrows \in BOOLEAN : Submit(1, TextCreate, FALSE, contextThrows)
  \/ \E text \in BlockTexts : OracleResponds(1, text)
  \/ \E message \in {MsgNetwork, MsgApiKey} : OracleFails(1, message)
  \/ DelayElapsed(1)
  \/ \E throws \in BOOLEAN : AfterGenerate(1, throws)
  \/ AfterSafety(1)
  \/ \E throws \in BOOLEAN : AfterExecute(1, throws)
  \/ \E throws \in BOOLEAN : AfterHandleError(1, throws)
  \/ CancelRequest(1)

SpecParse == Init /\ [][NextParse]_vars

\* One request whose attempts can time out, the oracle answering late.
NextTimeout ==
  \/ Submit(1, TextCreate, FALSE, FALSE)
  \/ \E text \in {Respond(CodeThrowValue), RespNoCode} : OracleResponds(1, text)
  \/ OracleFails(1, MsgNetwork)
  \/ AttemptTimesOut(1)
  \/ DelayElapsed(1)
  \/ \E a \in 1..retryAttempts : LateResponse(1, a, Respond(CodeCreate))
  \/ AfterGenerate(1, FALSE)
  \/ AfterSafety(1)
  \/ AfterExecute(1, FALSE)
  \/ AfterHandleError(1, FALSE)

SpecTimeout == Init /\ [][NextTimeout]_vars

\* generateContent called by itself, any number of times and concurrently;
\* the oracle fails during the first calls only.
MaxFailingCalls == 2

NextClient ==
  \/ \E r \in Reqs, prompt \in Prompts : GenerateContent(r, prompt)
  \/ \E r \in Reqs : OracleResponds(r, Respond(CodeCreate))
  \/ \E r \in Reqs : requestCount <= MaxFailingCalls /\ OracleFails(r, MsgNetwork)
  \/ \E r \in Reqs : DelayElapsed(r)
  \/ \E r \in Reqs : GenerateContentSettles(r)

SpecClient == Init /\ [][NextClient]_vars

\* executeWithLimits called at any moment, with any custom limits.
CustomLimits ==
  [timeout : {0, 1000, 2000}, maxMemory : {0, 1048576}] \
    {[timeout |-> 0, maxMemory |-> 0]}

NextExecutor ==
  \/ \E c \in Reqs, limits \in CustomLimits : ExecuteWithLimits(c, limits)
  \/ ExecuteWithLimitsSettles

SpecExecutor == Init /\ [][NextExecutor]_vars

\* The entity manager and its entities, under any sequence of operations.
NextWorld ==
  \/ \E id \in EntityIds : ManagerCreateEntity(id)
  \/ \E o \in 1..MaxObjects : AddEntity(o)
  \/ \E o \in 1..MaxObjects, type \in ComponentTypes : AddComponent(o, type)
  \/ \E o \in 1..MaxObjects, type \in ComponentTypes : RemoveComponent(o, type)
  \/ \E o \in 1..MaxObjects : AddTag(o, "player")
  \/ \E o \in 1..MaxObjects : RemoveTag(o, "player")
  \/ \E id \in EntityIds : RemoveEntity(id)
  \/ \E id \in EntityIds : DestroyEntity(id)

SpecWorld == Init /\ [][NextWorld]_vars

\* The server's game: set up, started, stopped and reset at any moment.
NextReset ==
  \/ SetUp
  \/ Start
  \/ Stop
  \/ GameLoop
  \/ ResetGame
  \/ Rebuild
  \/ \E id \in EntityIds : engine.phase # "new" /\ DestroyEntity(id)

SpecReset == Init /\ [][NextReset]_vars

\* Concurrent requests, and cancelRequest called with any id at any moment.
NextCancel ==
  \/ \E r \in Reqs, text \in {TextMax, TextTooLong} : Submit(r, text, FALSE, FALSE)
  \/ \E r \in Reqs : OracleResponds(r, Respond(CodeCreate))
  \/ \E r \in Reqs : OracleFails(r, MsgApiKey)
  \/ \E r \in Reqs : AfterGenerate(r, FALSE)
  \/ \E r \in Reqs : AfterSafety(r)
  \/ \E r \in Reqs : AfterExecute(r, FALSE)
  \/ \E r \in Reqs : AfterHandleError(r, FALSE)
  \/ \E requestId \in Ids : Cancel(requestId)

SpecCancel == Init /\ [][NextCancel]_vars

\* A simulation that fills up, and buildContext called at any moment.
NextContext ==
  \/ CreateEntity
  \/ \E text \in {TextCreate, TextMax}, includeAll \in BOOLEAN, idLength \in IdLengths,
        hasComponents \in BOOLEAN :
       BuildContext(text, includeAll, idLength, hasComponents)

SpecContext == Init /\ [][NextContext]_vars

-----------------------------------------------------------------------------
(* Properties                                                              *)

Range(seq) == { seq[i] : i \in DOMAIN seq }

EntriesOf(r) == { i \in DOMAIN executionHistory : executionHistory[i].id = r }

ValidationMessages == { ValidationError(t) : t \in UserTexts } \ {NoError}

\* The request passed the input validation.
Accepted(r) ==
  /\ req[r].pc # "idle"
  /\ ~(req[r].pc = "settled" /\ outcome[r].error \in ValidationMessages)

InFlight(r) == req[r].pc \notin {"idle", "settled"}

\* The denial lists, rule by rule.
DeniedByClient(code) ==
  \/ \E k \in DOMAIN clientDangerousPatterns : TestAlt(clientDangerousPatterns[k], code)
  \/ \E k \in DOMAIN infiniteLoopPatterns : TestAlt(infiniteLoopPatterns[k], code)

DeniedByService(code) ==
  \E k \in DOMAIN dangerousPatterns : RegexTest(dangerousPatterns[k].pattern, code)

DeniedInForce(code) ==
  DeniedByClient(code) \/ (enableSafetyChecks /\ DeniedByService(code))

RECURSIVE SumCreated(_)
SumCreated(order) ==
  IF order = <<>> THEN 0
  ELSE RunFrom(generated[Head(order)], 1, 0).entities + SumCreated(Tail(order))

C2_NoLostUpdates ==
  /\ entityCount = SumCreated(execOrder)
  /\ \A i, j \in DOMAIN execOrder : i # j => execOrder[i] # execOrder[j]
  /\ Cardinality({ r \in Reqs : req[r].pc = "executing" }) <= 1
  /\ (\A r \in Reqs : outcome[r].status = "resolved" /\ generated[r] = CodeCreate)
       => entityCount = MaxReq

C2_Witness ==
  /\ \A r \in Reqs : outcome[r].status = "resolved" /\ generated[r] = CodeCreate
  /\ entityCount = MaxReq
  /\ MaxReq > 1

\* C3: every accepted request whose promise has settled, and which has thereby
\* left the pending set, has exactly one entry in the history: none is dropped
\* and none is recorded twice.
C3_OneHistoryEntryPerRequest ==
  \A r \in Reqs :
    (Accepted(r) /\ req[r].pc = "settled" /\ r \notin pendingRequests)
      => Cardinality(EntriesOf(r)) = 1

\* C4: with the safety checks enabled, a request of which a stage failed is
\* recorded as a failure: it is not resolved as a success, no history entry
\* reports it as one, and the succeeded counter counts only requests whose
\* execution returned.
ExecutionFailed(r) ==
  r \in Range(execOrder) /\ RunFrom(generated[r], 1, 0).outcome = "threw"

EarlierStageFailed(r) ==
  r \notin Range(execOrder) /\ Accepted(r) /\ req[r].pc \in {"handled", "settled"}

ReportedSuccess(r) ==
  \/ outcome[r].status = "resolved"
  \/ \E i \in EntriesOf(r) : executionHistory[i].success

C4_StageFailureIsRecordedAsFailure ==
  enableSafetyChecks =>
    /\ \A r \in Reqs :
         (ExecutionFailed(r) \/ EarlierStageFailed(r)) => ~ReportedSuccess(r)
    /\ stats.successfulExecutions
         <= Cardinality({ r \in Range(execOrder) :
                            RunFrom(generated[r], 1, 0).outcome = "returned" })

\* C5: a submit with a text that is empty, not a string or longer than 1000
\* characters is rejected with a validation error and changes no counter, not
\* the history and not the pending set; any other text, one of exactly 1000
\* characters included, is accepted and counted.
InvalidText(t) == ~t.isString \/ t.length = 0 \/ t.length > 1000

C5_InvalidInputIsRejectedUnchanged ==
  [][\A r \in Reqs :
       (req[r].pc = "idle" /\ req'[r].pc # "idle") =>
         IF InvalidText(req'[r].userRequest)
           THEN /\ req'[r].pc = "settled"
                /\ outcome'[r].status = "rejected"
                /\ outcome'[r].error \in ValidationMessages
                /\ UNCHANGED <<stats, executionHistory, pendingRequests, requestCount,
                               clientTokensUsed, oracleCalls, entityCount>>
           ELSE /\ r \in pendingRequests'
                /\ outcome'[r].status = None
                /\ stats'.totalRequests = stats.totalRequests + 1]_vars

C5_Witness ==
  \E a, b \in Reqs :
    /\ req[a].userRequest = TextMax /\ req[a].pc = "oracle"
    /\ req[b].userRequest = TextTooLong /\ outcome[b].status = "rejected"
    /\ stats.totalRequests = 1

\* C6: with the safety checks enabled, no accepted request hangs: the call of
\* the executor resolves, and as long as the request has not settled it can
\* take its next step.
RequestStep(r) ==
  \/ \E text \in OracleTexts : OracleResponds(r, text)
  \/ \E message \in OracleErrors : OracleFails(r, message)
  \/ DelayElapsed(r)
  \/ \E throws \in BOOLEAN : AfterGenerate(r, throws)
  \/ AfterSafety(r)
  \/ \E throws \in BOOLEAN : AfterExecute(r, throws)
  \/ \E throws \in BOOLEAN : AfterHandleError(r, throws)

C6_NoRequestHangs ==
  enableSafetyChecks => \A r \in Reqs : InFlight(r) => ENABLED RequestStep(r)

\* C7: the history entry of a request that was cancelled in flight is tagged
\* cancelled, and not completed.
EntryTag(entry) == IF entry.success THEN "completed" ELSE entry.errorType

C7_CancelledIsTaggedCancelled ==
  \A r \in cancelled :
    req[r].pc = "settled" =>
      /\ EntriesOf(r) # {}
      /\ \A i \in EntriesOf(r) : EntryTag(executionHistory[i]) = "cancelled"

\* C8: generated code is executed in submission order.
C8_ExecutionInSubmissionOrder ==
  \A i, j \in DOMAIN execOrder : i < j => execOrder[i] < execOrder[j]

\* C9: transient failures are retried.  After n < retryAttempts failed
\* attempts, all transient, the call has not given up: it waits or has made
\* call n + 1.  When the oracle then answers, the generation call has made
\* exactly n + 1 oracle calls and raises none of the oracle's errors.
TransientErrors == {MsgRequestTimeout, MsgNetwork, MsgRateLimit}
FatalErrors == {MsgApiKey, MsgMalformed}

C9_TransientFailuresAreRetried ==
  \A r \in Reqs :
    LET a == attempts[r]
        n == Len(a)
    IN  /\ (n >= 1 /\ n < retryAttempts /\ \A i \in 1..n : a[i] \in TransientErrors)
             => /\ req[r].pc \in {"delay", "oracle"}
                /\ oracleCalls[r] = IF req[r].pc = "delay" THEN n ELSE n + 1
        /\ (n >= 1 /\ a[n] = Ok)
             => /\ \A i \in 1..(n - 1) : a[i] \in TransientErrors
                /\ n <= retryAttempts
                /\ oracleCalls[r] = n
                /\ req[r].pc \notin {"oracle", "delay"}
                /\ req[r].error \notin OracleErrors
                /\ outcome[r].error \notin OracleErrors

C9_Witness ==
  \E r \in Reqs :
    /\ attempts[r] = <<MsgRequestTimeout, MsgRequestTimeout, Ok>>
    /\ oracleCalls[r] = 3
    /\ req[r].pc = "generated"
    /\ req[r].error = NoError

\* C10: an authentication or malformed-request failure ends the generation
\* call: it is the last oracle call, no backoff delay follows it, and the
\* call raises that error.
C10_FatalFailuresAreNotRetried ==
  \A r \in Reqs :
    \A i \in DOMAIN attempts[r] :
      attempts[r][i] \in FatalErrors =>
        /\ i = Len(attempts[r])
        /\ oracleCalls[r] = i
        /\ Len(delays[r]) = i - 1
        /\ req[r].pc \notin {"oracle", "delay"}
        /\ req[r].pc = "generated" => req[r].error = attempts[r][i]

C10_Witness ==
  \E r \in Reqs :
    /\ attempts[r] = <<MsgMalformed>>
    /\ oracleCalls[r] = 1
    /\ delays[r] = <<>>
    /\ req[r].pc = "generated"
    /\ req[r].error = MsgMalformed

\* C11: with the safety checks enabled, executeGeneratedCode never rejects:
\* whenever the call has settled for a request whose code was evaluated, it
\* has resolved with an outcome, and has handed no error to the orchestrator.
C11_ExecutorNeverRejects ==
  enableSafetyChecks =>
    \A r \in Reqs :
      (r \in Range(execOrder) /\ req[r].pc = "executed") => req[r].error = NoError

\* C12: no error of a lower layer is thrown to the caller as it is: the error
\* a rejected request surfaces is never the very error raised by the oracle
\* call, by the context builder or inside the executor.
LowerLayerErrors == OracleErrors \cup {MsgContext, MsgTypeError}

C12_NoRawErrorReachesTheCaller ==
  \A r \in Reqs :
    outcome[r].status = "rejected" => outcome[r].error \notin LowerLayerErrors

\* C13: with the safety checks enabled, a code string that fails the
\* validator run before execution is never evaluated by the executor,
\* whichever way it reached the executor.
EvaluatedCodes ==
  { generated[r] : r \in Range(execOrder) }
    \cup (IF observed.op = "executeGeneratedCode" THEN {observed.value.code} ELSE {})

C13_OnlyValidatedCodeIsEvaluated ==
  enableSafetyChecks =>
    \A code \in EvaluatedCodes : SafetyViolations(code, TextCreate) = <<>>

\* C14: the validation after generation and the validation before execution
\* give the same verdict on every piece of generated code: both accept it or
\* both reject it.
C14_ValidationPassesAgree ==
  \A r \in Reqs :
    generated[r] # <<>> =>
      ((validateGeneratedCode(generated[r]) = NoError)
         <=> (SafetyViolations(generated[r], TextCreate) = <<>>))

\* C15: with the safety checks enabled, a request whose text holds a
\* suspicious phrase is blocked even when the generated code is clean: its
\* code is never evaluated, the check that follows the generation counts a
\* violation and raises an error (the safety error naming the suspicious
\* request, unless the violation callback itself threw), and the request
\* ends rejected.
SuspiciousWords ==
  {"hack", "exploit", "cheat", "bypass", "break", "crash", "infinite", "unlimited",
   "maximum"}

Suspicious(text) ==
  \E w \in SuspiciousWords : includes(toLowerCase(text.words), <<w>>)

SuspectInFlight(r) ==
  enableSafetyChecks /\ InFlight(r) /\ Suspicious(req[r].userRequest)

C15_NotEvaluated ==
  \A r \in Reqs :
    SuspectInFlight(r) =>
      /\ r \notin Range(execOrder)
      /\ req[r].pc \notin {"executing", "executed"}
      /\ req[r].pc = "checked" =>
           /\ stats.safetyViolations >= 1
           /\ \/ req[r].error = MsgCallback
              \/ /\ includes(req[r].error, <<"Safety", "violation", "s", "detected">>)
                 /\ includes(req[r].error, <<"Suspicious", "request", "pattern">>)

C15_Blocked ==
  \A r \in Reqs :
    SuspectInFlight(r) =>
      /\ (req[r].pc = "generated" /\ req[r].error = NoError /\ req'[r] # req[r])
           => /\ req'[r].pc = "checked"
              /\ req'[r].error # NoError
              /\ stats'.safetyViolations = stats.safetyViolations + 1
      /\ req'[r].pc = "settled"
           => /\ outcome'[r].status = "rejected"
              /\ r \notin Range(execOrder')

BlockedAfterGeneration ==
  { r \in Reqs : /\ generated[r] # <<>>
                 /\ validateGeneratedCode(generated[r]) # NoError
                 /\ req[r].pc \in {"handled", "settled"} }

C16_EveryBlockedRequestIsCounted ==
  enableSafetyChecks => stats.safetyViolations >= Cardinality(BlockedAfterGeneration)

\* C17: the history never holds more than 50 entries, and it holds the most
\* recent min(n, 50) of the n outcomes recorded so far, in the order of their
\* completion: once it is full, a new entry evicts exactly the oldest one.
C17_HistoryHoldsTheLatestFifty ==
  LET n == stats.totalRequests
      len == Len(executionHistory)
  IN  /\ len <= 50
      /\ len = IF n < 50 THEN n ELSE 50
      /\ \A i \in DOMAIN executionHistory : executionHistory[i].id = n - len + i

C17_Witness ==
  /\ stats.totalRequests = 52
  /\ Len(executionHistory) = 50
  /\ executionHistory[1].id = 3
  /\ executionHistory[50].id = 52

\* C18: getHistory returns the most recent entries, the latest one first.
C18_HistoryIsNewestFirst ==
  observed.op = "getHistory" =>
    \A i \in DOMAIN observed.value :
      observed.value[i] = executionHistory[Len(executionHistory) + 1 - i]

Cleared ==
  /\ stats = InitStats
  /\ executionHistory = <<>>
  /\ requestCount = 0
  /\ clientTokensUsed = 0
  /\ requestHistory = <<>>

ClearsSome ==
  \/ \E f \in DOMAIN stats : stats[f] > 0 /\ stats'[f] = 0
  \/ executionHistory # <<>> /\ executionHistory' = <<>>
  \/ requestCount > 0 /\ requestCount' = 0
  \/ clientTokensUsed > 0 /\ clientTokensUsed' = 0
  \/ requestHistory # <<>> /\ requestHistory' = <<>>

C20_ClearedAfterReset ==
  (observed'.op = "resetStats" /\ observed' # observed) => Cleared'

C20_ResetIsAtomic ==
  [][C20_ClearedAfterReset /\ (ClearsSome => Cleared')]_vars

C20_Witness ==
  /\ observed.op = "resetStats"
  /\ Cleared
  /\ execOrder = <<1>>
  /\ outcome[1].status = "resolved"

\* C21: a request with a valid text that holds no suspicious phrase, for which
\* the oracle answers with one fenced block of clean code that does not throw,
\* succeeds.  Accepting it adds one to totalRequests and to nothing else; no
\* stage raises an error for it; when no callback of the caller throws it
\* resolves with an execution outcome that reports success, and that step
\* adds one to the succeeded counter and the token estimate of the response
\* to the token total, and leaves the failed counter and totalRequests alone.
CleanCode(code) ==
  /\ code # <<>>
  /\ ~DeniedByClient(code)
  /\ ~DeniedByService(code)
  /\ SplitLinesLength(code) <= 50
  /\ RunFrom(code, 1, 0).outcome = "returned"

CleanRequest(r) ==
  /\ ~InvalidText(req[r].userRequest)
  /\ ~Suspicious(req[r].userRequest)
  /\ CleanCode(generated[r])

C21_NoStageFails ==
  \A r \in Reqs :
    CleanRequest(r) =>
      /\ req[r].pc \in {"generated", "checked", "executed"} => req[r].error = NoError
      /\ req[r].pc = "executed" => req[r].execSuccess
      /\ req[r].pc = "handled" => req[r].error = MsgCallback

C21_Counts ==
  \A r \in Reqs :
    /\ (req[r].pc = "idle" /\ req'[r].pc = "oracle")
         => stats' = [stats EXCEPT !.totalRequests = @ + 1]
    /\ (CleanRequest(r) /\ req[r].pc = "executed" /\ req'[r].pc = "settled")
         => /\ outcome'[r].status = "resolved"
            /\ outcome'[r].execSuccess
            /\ stats'.successfulExecutions = stats.successfulExecutions + 1
            /\ stats'.totalTokensUsed
                 = stats.totalTokensUsed + (Len(Respond(generated[r])) + 3) \div 4
            /\ stats'.failedExecutions = stats.failedExecutions
            /\ stats'.totalRequests = stats.totalRequests
            /\ \E i \in EntriesOf(r)' : executionHistory'[i].success

Fences(text) == { i \in DOMAIN text : text[i] = Fence }

FirstFencedBlock(text) ==
  LET a == CHOOSE i \in Fences(text) : \A j \in Fences(text) : i <= j
      b == CHOOSE i \in Fences(text) \ {a} : \A j \in Fences(text) \ {a} : i <= j
      inner == { i \in (a + 1)..(b - 1) :
                   ~IsSpace(text[i]) /\ ~(i = a + 1 /\ text[i] \in {"javascript", "js"}) }
  IN  IF inner = {} THEN <<>>
      ELSE SubSeq(text, CHOOSE i \in inner : \A j \in inner : i <= j,
                        CHOOSE i \in inner : \A j \in inner : i >= j)

MsgNoCode == <<"No", "code", "blocks", "found", "in", "response">>

Parsed(r) ==
  /\ req[r].response # <<>>
  /\ req[r].pc \in {"generated", "checked", "executing", "executed", "handled"}

C22_OnlyTheFirstBlock ==
  \A r \in Reqs :
    Parsed(r) =>
      LET text == req[r].response
      IN  IF Cardinality(Fences(text)) < 2
            THEN /\ req[r].error = MsgNoCode
                 /\ req[r].pc \in {"generated", "handled"}
                 /\ req[r].code = <<>>
                 /\ r \notin Range(execOrder)
                 /\ entityCount = 0
            ELSE /\ generated[r] = FirstFencedBlock(text)
                 /\ req[r].code \in {<<>>, FirstFencedBlock(text)}
                 /\ req[r].pc = "generated" =>
                      ((req[r].error = NoError) <=> ~DeniedByClient(FirstFencedBlock(text)))
                 /\ r \in Range(execOrder) =>
                      /\ ~DeniedByClient(FirstFencedBlock(text))
                      /\ entityCount = RunFrom(FirstFencedBlock(text), 1, 0).entities

C22_Witness ==
  /\ enableSafetyChecks
  /\ generated[1] = CodeCreate
  /\ req[1].response = RespondBlocks(<<CodeCreate, CodeEval>>)
  /\ req[1].pc = "executed"
  /\ req[1].execSuccess
  /\ execOrder = <<1>>
  /\ entityCount = 1

\* C23: with the safety checks enabled, evaluated code gets hold of nothing
\* but the values passed into the evaluation context: no piece of code that
\* the pipeline evaluates reaches a value of the host.
C23_OnlyTheCapabilitySurface ==
  enableSafetyChecks =>
    \A r \in Reqs :
      r \in Range(execOrder) => HostValuesReached(generated[r]) = {}

\* C24: the oracle calls in flight are capped.  Whatever limit is configured,
\* once more requests than the limit are submitted concurrently some of them
\* wait: the MaxReq requests submitted are never all in the generation stage
\* at the same time.
InGeneration == { r \in Reqs : req[r].pc \in {"oracle", "delay"} }

C24_OracleCallsAreCapped ==
  /\ Cardinality(InGeneration) < MaxReq
  /\ Cardinality({ r \in Reqs : req[r].pc = "oracle" }) < MaxReq

\* C25: cancelRequest(id) answers true exactly when id is in the pending set
\* at the time of the call, and then removes it and touches nothing else; for
\* the id of no request, of a finished request or of a request cancelled
\* before, it answers false and changes nothing.
C25_Call ==
  (observed'.op = "cancelRequest" /\ observed' # observed) =>
    LET id == observed'.value.requestId
    IN  /\ observed'.value.result = (id \in pendingRequests)
        /\ pendingRequests' = pendingRequests \ {id}
        /\ id \notin pendingRequests => pendingRequests' = pendingRequests
        /\ UNCHANGED <<stats, executionHistory, requestCount, clientTokensUsed,
                       requestHistory, entityCount, req, outcome, execOrder>>

C25_CancelAnswersWhetherPending == [][C25_Call]_vars

C25_Witness ==
  /\ observed = [op |-> "cancelRequest", value |-> [requestId |-> 1, result |-> FALSE]]
  /\ 1 \in cancelled
  /\ InFlight(1)
  /\ pendingRequests = {2}

\* C26: every context returned by buildContext is size-bounded: its
\* serialized length is at most 8000 characters, whatever the entities of the
\* simulation.
C26_ContextIsSizeBounded ==
  observed.op = "buildContext" => observed.value.length <= 8000

\* C27: with the safety checks disabled, performSafetyChecks resolves without
\* an error for every code and every user text, and counts no violation.
C27_DisabledChecksAreSkipped ==
  ~enableSafetyChecks =>
    /\ observed.op = "performSafetyChecks" => observed.value.error = NoError
    /\ stats.safetyViolations = 0

\* C28: every error raised by the safety gate is classified as a safety
\* error: the history entry of a request that performSafetyChecks rejected
\* has the error type safety, whichever rule was violated.
RejectedBySafetyGate(r) ==
  /\ req[r].pc = "handled"
  /\ includes(req[r].error, <<"Safety", "violation", "s", "detected">>)

C28_SafetyErrorsAreClassifiedSafety ==
  \A r \in Reqs :
    RejectedBySafetyGate(r) =>
      \A i \in EntriesOf(r) : executionHistory[i].errorType = "safety"

\* C29: with the safety checks enabled, the callbacks of a request are invoked
\* exactly once.  A request rejected by the input validation invokes none.
\* For an accepted request onModificationStart is invoked once, first, and
\* before the oracle is called; at most one of onModificationComplete and
\* onModificationError is invoked, and once the request has settled exactly
\* one of them has been, once: the former when it resolved, the latter when
\* it was rejected.
Count(seq, x) == Cardinality({ i \in DOMAIN seq : seq[i] = x })

Ends(r) ==
  Count(trace[r], "onModificationComplete") + Count(trace[r], "onModificationError")

C29_CallbacksExactlyOnce ==
  enableSafetyChecks =>
    \A r \in Reqs :
      IF ~Accepted(r) THEN trace[r] = <<>>
      ELSE /\ Count(trace[r], "onModificationStart") = 1
           /\ trace[r][1] = "onModificationStart"
           /\ Ends(r) <= 1
           /\ req[r].pc = "settled" =>
                /\ Ends(r) = 1
                /\ outcome[r].status = "resolved"
                     => Count(trace[r], "onModificationComplete") = 1
                /\ outcome[r].status = "rejected"
                     => Count(trace[r], "onModificationError") = 1

\* C30: within one request the stages run in pipeline order, each at most
\* once, and the request never moves back.  The context is built before the
\* generation starts, the oracle has answered (after however many retries)
\* before the safety check runs, and with the safety checks enabled the
\* executor is entered only after the safety check ran and found no
\* violation; with the checks disabled the safety stage is left out.
StageOrder ==
  <<"buildContext", "generateGameCode", "performSafetyChecks", "executeGeneratedCode">>

Position(seq, x) ==
  IF \E i \in DOMAIN seq : seq[i] = x THEN CHOOSE i \in DOMAIN seq : seq[i] = x ELSE 0

StageRank(pc) ==
  CASE pc = "idle" -> 0
    [] pc \in {"oracle", "delay"} -> 1
    [] pc = "generated" -> 2
    [] pc = "checked" -> 3
    [] pc \in {"executing", "executed"} -> 4
    [] pc = "handled" -> 5
    [] pc = "settled" -> 6

C30_InOrder ==
  \A r \in Reqs :
    LET at(k) == Position(trace[r], StageOrder[k])
    IN  /\ \A k \in 1..4 : Count(trace[r], StageOrder[k]) <= 1
        /\ \A j, k \in 1..4 :
             (j < k /\ at(k) > 0) =>
               \/ at(j) > 0 /\ at(j) < at(k)
               \/ j = 3 /\ ~enableSafetyChecks /\ at(j) = 0
        /\ (at(2) > 0) <=> (oracleCalls[r] >= 1)
        /\ at(3) > 0 =>
             /\ attempts[r] # <<>>
             /\ attempts[r][Len(attempts[r])] = Ok
             /\ oracleCalls[r] = Len(attempts[r])
        /\ (at(4) > 0 /\ enableSafetyChecks) =>
             /\ at(3) > 0
             /\ Count(trace[r], "onSafetyViolation") = 0

C30_Forward ==
  \A r \in Reqs : StageRank(req'[r].pc) >= StageRank(req[r].pc)

GenerationFailed(r) ==
  /\ req[r].pc = "generated"
  /\ attempts[r] # <<>>
  /\ attempts[r][Len(attempts[r])] # Ok

C31_RetriesBackOff ==
  \A r \in Reqs :
    /\ oracleCalls[r] <= retryAttempts
    /\ Len(attempts[r]) <= oracleCalls[r]
    /\ \A a \in DOMAIN delays[r] :
         /\ a < retryAttempts
         /\ attempts[r][a] # Ok
         /\ delays[r][a] = retryDelay * 2^(a - 1)
    /\ Len(delays[r]) = IF req[r].pc = "delay" THEN oracleCalls[r]
                        ELSE IF oracleCalls[r] = 0 THEN 0
                        ELSE oracleCalls[r] - 1
    /\ GenerationFailed(r) =>
         /\ req[r].error = attempts[r][Len(attempts[r])]
         /\ \A a \in DOMAIN attempts[r] : attempts[r][a] # Ok
         /\ Len(delays[r]) = Len(attempts[r]) - 1

C31_Witness ==
  /\ attempts[1] = <<MsgNetwork, MsgRequestTimeout, MsgRateLimit>>
  /\ delays[1] = <<1000, 2000>>
  /\ oracleCalls[1] = 3
  /\ req[1].pc = "generated"
  /\ req[1].error = MsgRateLimit

\* C32: an attempt whose timeout won the race is a failed attempt, and the
\* answer the oracle gives late to its call is never the result of the
\* generation call and changes nothing of a later attempt or of the request.
TimedOut(r) == lateCalls[r].outstanding \cup lateCalls[r].delivered

LateText == Respond(CodeCreate)

C32_TimedOutIsFailed ==
  \A r \in Reqs :
    /\ \A a \in TimedOut(r) :
         /\ a <= Len(attempts[r])
         /\ attempts[r][a] = MsgRequestTimeout
    /\ req[r].response # LateText
    /\ generated[r] # CodeCreate
    /\ (req[r].pc = "generated" /\ req[r].error = NoError) =>
         /\ attempts[r][Len(attempts[r])] = Ok
         /\ Len(attempts[r]) \notin TimedOut(r)
    /\ entityCount = 0

C32_LateAnswerStep ==
  (\E r \in Reqs : lateCalls'[r].delivered # lateCalls[r].delivered) =>
    UNCHANGED <<req, attempts, generated, outcome, stats, executionHistory,
                requestHistory, requestCount, clientTokensUsed, oracleCalls, delays,
                pendingRequests, entityCount, trace>>

C32_LateResponseIsDropped == []C32_TimedOutIsFailed /\ [][C32_LateAnswerStep]_vars

C32_Witness ==
  /\ lateCalls[1].delivered = {1}
  /\ attempts[1] = <<MsgRequestTimeout>>
  /\ req[1].pc = "oracle"
  /\ req[1].attempt = 2

\* C33: a request is in the pending map from the moment it passed the input
\* validation until processModificationRequest settles (or until it is
\* cancelled); a request that is not in flight is not in the map, so with no
\* request in flight the map is empty and getStats reports 0 pending requests.
C33_PendingAreInFlight ==
  /\ pendingRequests \subseteq { r \in Reqs : InFlight(r) }
  /\ \A r \in Reqs : (InFlight(r) /\ r \notin cancelled) => r \in pendingRequests
  /\ (\A r \in Reqs : ~InFlight(r)) =>
       /\ pendingRequests = {}
       /\ getStats.pendingRequests = 0

C33_Witness ==
  /\ \A r \in Reqs : req[r].pc = "settled"
  /\ outcome[1].status = "resolved"
  /\ outcome[2].status = "rejected"
  /\ outcome[2].error \notin ValidationMessages
  /\ cancelled = {}
  /\ pendingRequests = {}

\* C34: a generateContent call with a valid prompt adds exactly 1 to the
\* client's requestCount, whatever the number of attempts, and appends exactly
\* one entry to the client's history when it ends, the history keeping the
\* latest 100 entries; a call with an invalid prompt changes neither.
CallsInFlight == Cardinality({ r \in Reqs : req[r].pc \in {"oracle", "delay"} })

Latest(seq, n) == SubSeq(seq, Len(seq) - Min(n, Len(seq)) + 1, Len(seq))

C34_OneEntryPerCall ==
  /\ Len(requestHistory) <= 100
  /\ Len(requestHistory) = Min(100, requestCount - CallsInFlight)

C34_CallStep ==
  \A r \in Reqs :
    /\ (req[r].pc = "idle" /\ req'[r].pc = "oracle") =>
         /\ PromptError(req'[r].userRequest) = NoError
         /\ requestCount' = requestCount + 1
         /\ requestHistory' = requestHistory
    /\ (req[r].pc \in {"oracle", "delay"} /\ req'[r].pc \in {"oracle", "delay"}
          /\ req'[r] # req[r]) =>
         /\ requestCount' = requestCount
         /\ requestHistory' = requestHistory
    /\ (req[r].pc = "oracle" /\ req'[r].pc = "generated") =>
         /\ requestCount' = requestCount
         /\ \E success \in BOOLEAN :
              /\ success <=> (attempts'[r][Len(attempts'[r])] = Ok)
              /\ Len(requestHistory') > 0
              /\ requestHistory'[Len(requestHistory')].success = success
              /\ requestHistory' =
                   Latest(Append(requestHistory, requestHistory'[Len(requestHistory')]),
                          100)
    /\ (observed'.op = "generateContent" /\ req[r].pc = "idle" /\ req'[r].pc = "idle"
          /\ \A q \in Reqs : req'[q] = req[q]) =>
         /\ requestCount' = requestCount
         /\ requestHistory' = requestHistory

C34_CountsAndHistory == []C34_OneEntryPerCall /\ [][C34_CallStep]_vars

C34_Witness ==
  /\ requestCount = 101
  /\ Len(requestHistory) = 100
  /\ CallsInFlight = 0
  /\ \A i \in DOMAIN requestHistory : requestHistory[i].success
  /\ observed.op = "generateContent"
  /\ observed.value.status = "rejected"
  /\ observed.value.error = PromptError(PromptTooLong)

\* C35: the history query is bounded by its argument.  For every limit >= 0,
\* getHistory(limit) returns exactly min(limit, length of the history) entries.
C35_Call ==
  \A limit \in Limits :
    GetHistory(limit) => Len(observed'.value) = Min(limit, Len(executionHistory))

C35_HistoryQueryIsBounded == [][C35_Call]_vars

\* C36: in every state succeeded + failed <= totalRequests, and with no
\* request in flight succeeded + failed = totalRequests.
C36_EveryRequestCountedOnce ==
  /\ stats.successfulExecutions + stats.failedExecutions <= stats.totalRequests
  /\ (\A r \in Reqs : ~InFlight(r)) =>
       stats.successfulExecutions + stats.failedExecutions = stats.totalRequests

\* C37: executeWithLimits restores the limits.  When every call of
\* executeWithLimits has completed, the executor's timeout and maxMemory are
\* the ones it had before the first call.
C37_LimitsAreRestored ==
  (\A c \in Reqs : limitCalls[c].pc = "idle") => executorLimits = DefaultLimits

\* C38: the indices of the entity manager agree with the entities.  For every
\* list of component types getEntitiesWithComponents returns exactly the
\* registered active entities that have every listed component, and for every
\* tag getEntitiesByTag returns exactly the registered active entities that
\* carry the tag.
Registered == { manager.entities[id] : id \in { x \in EntityIds : manager.entities[x] # 0 } }

TypeLists ==
  {<<>>} \cup { <<t>> : t \in ComponentTypes }
         \cup { <<t, u>> : t \in ComponentTypes, u \in ComponentTypes }

C38_IndicesAgreeWithEntities ==
  /\ \A types \in TypeLists :
       getEntitiesWithComponents(types) =
         { o \in Registered : heap[o].active /\ Range(types) \subseteq heap[o].components }
  /\ \A tag \in Tags :
       getEntitiesByTag(tag) = { o \in Registered : heap[o].active /\ tag \in heap[o].tags }

\* C39: the entity createEntity(id) returns is the one registered under the
\* id.  Immediately after the call getEntity(id) returns the same object,
\* also when the id was in use or queued for destruction.
C39_CreatedEntityIsRegistered ==
  engine.asked # None => getEntity(engine.asked) = engine.returned

\* C40: resetGame resets the game.  Once resetGame and its delayed rebuild
\* have run the simulation holds the entities of the demo world in their
\* initial state, and they are still there after the engine was started again
\* and has processed its destroy queue.
C40_ResetRebuildsTheDemoWorld ==
  /\ engine.phase = "rebuilt" =>
       \A i \in DOMAIN DemoIds :
         /\ getEntity(DemoIds[i]) # 0
         /\ heap[getEntity(DemoIds[i])] = DemoEntity(DemoIds[i])
  /\ engine.phase = "played" =>
       \A i \in DOMAIN DemoIds :
         /\ getEntity(DemoIds[i]) # 0
         /\ heap[getEntity(DemoIds[i])].active

====
